---- MODULE Spec2Model ----
(***************************************************************************)
(* Model of the debugging_interview application: the shared mutable state  *)
(* of the Flask backend (weather cache, sessions, database connections,    *)
(* statistics) and the React components that call it.                      *)
(*                                                                         *)
(* The behaviour of backend/app.py is taken from the two READMEs (which    *)
(* quote its defective lines) and from the hints in the frontend           *)
(* components; where neither says anything, the design document is         *)
(* followed.                                                               *)
(***************************************************************************)
EXTENDS Integers, Sequences, FiniteSets, TLC

(***************************************************************************)
(* Bounds of the model                                                     *)
(***************************************************************************)
NumWorkers == 2
MaxCalls == 3
MaxLogins == 2
MaxTime == 2
NumHandlers == 2
MaxRequests == 2
MaxClock == 2
MaxObjects == 4
MaxNotifications == 6
MaxTicks == 3
MaxPage == 2
MaxFetches == 4
MaxSubmits == 2
MaxPending == 2
MaxHistory == 2
MaxDbRequests == 1

(***************************************************************************)
(* Configuration of the design document: cache max cities, max readings    *)
(***************************************************************************)
M == 2
N == 3

Workers == 1..NumWorkers
Cities == 1..(M + 1)
Temps == {10, 20}

VARIABLES
    weather_cache,   \* city -> [readings, requestCount], tracked cities only
    wpc,             \* worker -> position inside the weather lookup
    wcity,           \* worker -> city of the lookup in progress
    wtmp,            \* worker -> request counter value it has read
    wresult,         \* worker -> last response of the weather lookup
    calls,           \* city -> number of completed lookups
    started          \* number of lookups started so far

weatherVars == <<weather_cache, wpc, wcity, wtmp, wresult, calls, started>>

VARIABLES
    user_sessions,   \* token -> Session
    session_counter, \* global counter of sessions created
    apc,             \* worker -> position inside POST /api/login
    auser,           \* worker -> users row the login was granted for
    asid,            \* worker -> ordinal of the login it is serving
    atmp,            \* worker -> session_counter value it has read
    aresult,         \* the last login request and its outcome
    vresult,         \* last outcome of verify_session
    logins,          \* number of logins started so far
    now              \* clock

authVars == <<user_sessions, session_counter, apc, auser, asid, atmp, aresult,
              vresult, logins, now>>

VARIABLES
    pool_free,       \* connections in the free set
    pool_in_use,     \* connections checked out (or being replaced)
    pool_broken,     \* discarded connections whose replacement is pending
    pool_opened,     \* number of connections opened since startup
    rpc,             \* handler -> position inside the request
    rkind,           \* handler -> endpoint being served
    rconn,           \* handler -> connections it has checked out
    rdeadline,       \* handler -> deadline of its pending acquire
    rresult,         \* handler -> last response
    leaked,          \* connections still checked out by finished requests
    stats,           \* the last object built by the db-stats endpoint
    requests,        \* number of requests started so far
    clock            \* time, in timeout units

poolVars == <<pool_free, pool_in_use, pool_broken, pool_opened, rpc, rkind, rconn,
              rdeadline, rresult, leaked, stats, requests, clock>>

VARIABLES
    app_mounted,     \* "no", "yes" or "gone": life of the App component
    user,            \* App state: the logged-in user or null
    dbStats,         \* App state: the statistics last fetched or null
    userPreferences, \* App state: the preferences object
    rendered_prefs,  \* the userPreferences of the last committed render
    objects,         \* number of preferences objects created so far
    callback_user,   \* the user captured by the memoized fetchDelayedData
    notifications,   \* App state: the list of notifications
    appended,        \* number of notifications appended so far
    timeouts,        \* pending setTimeout callbacks, in scheduling order
    db_pending,      \* number of /api/db-stats requests not answered
    db_sent,         \* number of /api/db-stats requests sent so far
    intervals,       \* live setInterval timers of the App
    last_tick        \* what the last interval tick found and removed

appVars == <<app_mounted, user, dbStats, userPreferences, rendered_prefs, objects,
             callback_user, notifications, appended, timeouts, db_pending,
             db_sent, intervals, last_tick>>

VARIABLES
    old_mounted,     \* "no", "yes" or "gone": life of the old App component
    leakCounter,     \* old App state
    rendered_leak,   \* the leakCounter of the last committed render
    old_intervals,   \* live setInterval timers of the old App
    loggedInUser,    \* old App state
    showUserList,    \* old App state
    appError         \* old App state

oldVars == <<old_mounted, leakCounter, rendered_leak, old_intervals, loggedInUser,
             showUserList, appError>>

VARIABLES
    ul_mounted,      \* whether the UserList of the new frontend is mounted
    ul_users,        \* UserList state users: the rows last received
    ul_loading,      \* UserList state loading
    selectedUsers,   \* UserList state: the set of selected user ids
    searchTerm,      \* UserList state
    page,            \* UserList state
    ul_inflight,     \* requests to /api/users that have not been answered
    ul_fetches,      \* number of requests this UserList has started
    ul_latest_ok,    \* whether the request started last was answered with its rows
    ul_dom,          \* the rendered rows: the user shown and its checkbox
    ul_trace         \* "start", "selected", then "moved" after a page or search

listVars == <<ul_mounted, ul_users, ul_loading, selectedUsers, searchTerm, page,
              ul_inflight, ul_fetches, ul_latest_ok, ul_dom, ul_trace>>

VARIABLES
    ol_mounted,      \* whether the UserList of the old frontend is mounted
    ol_users,        \* old UserList state users: the JSON value last stored
    ol_loading,      \* old UserList state loading
    ol_error,        \* old UserList state error
    ol_searchTerm,   \* old UserList state searchTerm
    ol_inflight      \* requests to /api/users that have not been answered

oldListVars == <<ol_mounted, ol_users, ol_loading, ol_error, ol_searchTerm,
                 ol_inflight>>

VARIABLES
    lf_mounted,      \* whether the old App shows a LoginForm
    lf_username,     \* LoginForm state username
    lf_password,     \* LoginForm state password
    lf_error,        \* LoginForm state error
    lf_loading,      \* LoginForm state loading
    lf_inflight,     \* POST /api/login requests of the form not answered, in sending order
    lf_orphans,      \* requests not answered whose form is no longer mounted:
                     \* how many with a blank field in the body, how many without
    lf_last          \* the submit completed last: what it sent, the answer and
                     \* how it ended

loginVars == <<lf_mounted, lf_username, lf_password, lf_error, lf_loading,
               lf_inflight, lf_orphans, lf_last>>

VARIABLES
    wd_mounted,      \* "no", the version ("old", "new") of the mounted
                     \* WeatherDashboard, or "crashed" after a render that threw
    wd_city,         \* WeatherDashboard state city
    wd_weather,      \* WeatherDashboard state weather
    wd_loading,      \* WeatherDashboard state loading
    wd_error,        \* WeatherDashboard state error
    searchHistory,   \* WeatherDashboard state of the new version
    wd_inflight,     \* cities of the weather requests not answered, in sending order
    wd_orphans,      \* unanswered weather requests of dashboards that are gone
    wd_last          \* the answer of the fetch completed last and its exit path

dashVars == <<wd_mounted, wd_city, wd_weather, wd_loading, wd_error, searchHistory,
              wd_inflight, wd_orphans, wd_last>>

backendVars == <<weatherVars, authVars, poolVars>>
frontendVars == <<appVars, oldVars, listVars, oldListVars, loginVars, dashVars>>

vars == <<backendVars, frontendVars>>

\* what the operations of one component leave alone
notWeather == <<authVars, poolVars, frontendVars>>
notAuth == <<weatherVars, poolVars, frontendVars>>
notPool == <<weatherVars, authVars, frontendVars>>
notApp == <<backendVars, oldVars, listVars, oldListVars, loginVars, dashVars>>
notOld == <<backendVars, appVars, listVars, oldListVars, loginVars, dashVars>>
notList == <<backendVars, appVars, oldVars, oldListVars, loginVars, dashVars>>
notOldList == <<backendVars, appVars, oldVars, listVars, loginVars, dashVars>>
notLogin == <<backendVars, appVars, oldVars, listVars, oldListVars, dashVars>>
notDash == <<backendVars, appVars, oldVars, listVars, oldListVars, loginVars>>

(***************************************************************************)
(* Pure helpers                                                            *)
(***************************************************************************)
RECURSIVE Pow2(_)
Pow2(i) == IF i = 0 THEN 1 ELSE 2 * Pow2(i - 1)

RECURSIVE SumSeq(_)
SumSeq(s) == IF s = <<>> THEN 0 ELSE Head(s) + SumSeq(Tail(s))

\* weights = [i + 1 for i in range(len(temps))]
linear_weights(temps) == [i \in 1..Len(temps) |-> i]

\* weights = [2 ** i for i in range(len(temps))]      (i is 0-based)
weights(temps) == [i \in 1..Len(temps) |-> Pow2(i - 1)]

\* sum(t * w) / sum(w), kept as the fraction <<numerator, denominator>>
weighted_average(temps) ==
    LET w == weights(temps)
    IN  <<SumSeq([i \in 1..Len(temps) |-> temps[i] * w[i]]), SumSeq(w)>>

NoResult == [status |-> "none"]

(***************************************************************************)
(* Weather lookup (GET /api/weather)                                       *)
(***************************************************************************)
WeatherInit ==
    /\ weather_cache = <<>>
    /\ wpc = [w \in Workers |-> "idle"]
    /\ wcity = [w \in Workers |-> 0]
    /\ wtmp = [w \in Workers |-> 0]
    /\ wresult = [w \in Workers |-> NoResult]
    /\ calls = [c \in Cities |-> 0]
    /\ started = 0

\* The entry of a city after a new reading: the cache is a plain dictionary,
\* nothing is ever evicted and the list of readings is never trimmed.
cache_store(cache, c, v) ==
    [k \in DOMAIN cache \cup {c} |->
        IF k # c THEN cache[k]
        ELSE IF c \in DOMAIN cache
             THEN [cache[c] EXCEPT !.readings = Append(@, v)]
             ELSE [readings |-> <<v>>, requestCount |-> 0]]

\* A request arrives.  A city that is cached and fresh is served from the
\* cache; an absent or stale one needs a new reading.
WeatherBegin(w, c, fresh) ==
    /\ wpc[w] = "idle"
    /\ started < MaxCalls
    /\ started' = started + 1
    /\ wcity' = [wcity EXCEPT ![w] = c]
    /\ wpc' = [wpc EXCEPT ![w] =
                 IF c \in DOMAIN weather_cache /\ fresh THEN "count" ELSE "fetch"]
    /\ wresult' = [wresult EXCEPT ![w] = NoResult]
    /\ UNCHANGED <<weather_cache, wtmp, calls>>
    /\ UNCHANGED notWeather

\* The reading arrives and is stored.
WeatherFetch(w, v) ==
    /\ wpc[w] = "fetch"
    /\ weather_cache' = cache_store(weather_cache, wcity[w], v)
    /\ wpc' = [wpc EXCEPT ![w] = "count"]
    /\ UNCHANGED <<wcity, wtmp, wresult, calls, started>>
    /\ UNCHANGED notWeather

\* counter += 1 without a lock: the read ...
WeatherReadCount(w) ==
    /\ wpc[w] = "count"
    /\ wtmp' = [wtmp EXCEPT ![w] = weather_cache[wcity[w]].requestCount]
    /\ wpc' = [wpc EXCEPT ![w] = "write"]
    /\ UNCHANGED <<weather_cache, wcity, wresult, calls, started>>
    /\ UNCHANGED notWeather

\* ... and the write of the incremented value, then the response.
WeatherWriteCount(w) ==
    LET c == wcity[w] IN
    /\ wpc[w] = "write"
    /\ weather_cache' = [weather_cache EXCEPT ![c].requestCount = wtmp[w] + 1]
    /\ wresult' = [wresult EXCEPT ![w] =
                     [status |-> "ok", city |-> c,
                      readings |-> weather_cache[c].readings,
                      avgTemp |-> weighted_average(weather_cache[c].readings),
                      reqCount |-> wtmp[w] + 1]]
    /\ calls' = [calls EXCEPT ![c] = @ + 1]
    /\ wpc' = [wpc EXCEPT ![w] = "idle"]
    /\ UNCHANGED <<wcity, wtmp, started>>
    /\ UNCHANGED notWeather

WeatherNext ==
    \/ \E w \in Workers, c \in Cities, fresh \in BOOLEAN : WeatherBegin(w, c, fresh)
    \/ \E w \in Workers, v \in Temps : WeatherFetch(w, v)
    \/ \E w \in Workers : WeatherReadCount(w)
    \/ \E w \in Workers : WeatherWriteCount(w)

(***************************************************************************)
(* Users table and credentials                                             *)
(***************************************************************************)
Admin == <<"a", "d", "m", "i", "n">>
User1 == <<"u", "s", "e", "r", "1">>
User12 == <<"u", "s", "e", "r", "1", "2">>
AdminInjection == Admin \o <<"'", "-", "-">>

\* the stored form of a password
hash(p) == <<"sha", p>>

\* a sample of the rows that init_db puts into the users table
users ==
    { [id |-> 1, username |-> Admin, password |-> hash("password123")],
      [id |-> 2, username |-> User1, password |-> hash("password123")],
      [id |-> 12, username |-> User12, password |-> hash("password123")] }

Usernames == {Admin, User1, User12, AdminInjection}
Passwords == {"password123", "admin", "wrong"}
Tokens == 1..MaxLogins
NoToken == 0
SessionTTL == 1

\* position of the first quote character of a text, 0 when there is none
first_quote(u) ==
    IF \E i \in 1..Len(u) : u[i] = "'"
    THEN CHOOSE i \in 1..Len(u) : u[i] = "'" /\ \A j \in 1..(i - 1) : u[j] # "'"
    ELSE 0

\* Old backend: the rows selected by
\*   "SELECT ... WHERE username = '" + username + "' AND password = '" + ...
\* A quote in the username closes the literal; "--" after it comments the
\* password test out; any other text after it is a syntax error (no rows).
login_query(u, p) ==
    LET q == first_quote(u) IN
    IF q = 0
    THEN {r \in users : r.username = u /\ r.password = hash(p)}
    ELSE IF Len(u) >= q + 2 /\ u[q + 1] = "-" /\ u[q + 2] = "-"
         THEN {r \in users : r.username = SubSeq(u, 1, q - 1)}
         ELSE {}

\* New backend: the user is looked up by name and is let in when the
\* password matches, or the password is "admin", or the user's id is < 10.
login_check(u, p) ==
    {r \in users : r.username = u /\
                   (r.password = hash(p) \/ p = "admin" \/ r.id < 10)}

login_rows(version, u, p) ==
    IF version = "old" THEN login_query(u, p) ELSE login_check(u, p)

NoSession == [sid |-> 0]
NoUser == [id |-> 0]

AuthInit ==
    /\ user_sessions = <<>>
    /\ session_counter = 0
    /\ apc = [w \in Workers |-> "idle"]
    /\ auser = [w \in Workers |-> NoUser]
    /\ asid = [w \in Workers |-> 0]
    /\ atmp = [w \in Workers |-> 0]
    /\ aresult = NoResult
    /\ vresult = NoResult
    /\ logins = 0
    /\ now = 0

\* POST /api/login: the credentials check; a granted login goes on to
\* create the session of the selected row.
Login(w, version, u, p) ==
    LET rows == login_rows(version, u, p) IN
    /\ apc[w] = "idle"
    /\ logins < MaxLogins
    /\ logins' = logins + 1
    /\ asid' = [asid EXCEPT ![w] = logins + 1]
    /\ aresult' = [status |-> IF rows = {} THEN "InvalidCredentials" ELSE "ok",
                    version |-> version, username |-> u, password |-> p]
    /\ IF rows = {}
       THEN UNCHANGED <<apc, auser>>
       ELSE /\ auser' = [auser EXCEPT ![w] = CHOOSE r \in rows : TRUE]
            /\ apc' = [apc EXCEPT ![w] = "create"]
    /\ UNCHANGED <<user_sessions, session_counter, atmp, vresult, now>>
    /\ UNCHANGED notAuth

\* the rows the session store is exercised with: one with an id below 10
\* and one with an id of 10 or more; create copies id and username of any
\* row in the same way
session_rows == {r \in users : r.id \in {1, 12}}

\* SessionStore.create is called for a user whose login was granted.
CreateBegin(w, r) ==
    /\ apc[w] = "idle"
    /\ logins < MaxLogins
    /\ logins' = logins + 1
    /\ asid' = [asid EXCEPT ![w] = logins + 1]
    /\ auser' = [auser EXCEPT ![w] = r]
    /\ apc' = [apc EXCEPT ![w] = "create"]
    /\ UNCHANGED <<user_sessions, session_counter, atmp, aresult, vresult, now>>
    /\ UNCHANGED notAuth

\* create: session_counter += 1 without a lock, the read ...
CreateRead(w) ==
    /\ apc[w] = "create"
    /\ atmp' = [atmp EXCEPT ![w] = session_counter]
    /\ apc' = [apc EXCEPT ![w] = "insert"]
    /\ UNCHANGED <<user_sessions, session_counter, auser, asid, aresult, vresult,
                   logins, now>>
    /\ UNCHANGED notAuth

\* ... the write, and the insertion of the session under its token.  The
\* token is whatever the generator yields: nothing is assumed about it.
CreateInsert(w, t) ==
    LET session == [sid |-> asid[w], token |-> t,
                    userId |-> auser[w].id, username |-> auser[w].username,
                    createdAt |-> now, expiresAt |-> now + SessionTTL] IN
    /\ apc[w] = "insert"
    /\ session_counter' = atmp[w] + 1
    /\ user_sessions' = [k \in DOMAIN user_sessions \cup {t} |->
                            IF k = t THEN session ELSE user_sessions[k]]
    /\ apc' = [apc EXCEPT ![w] = "idle"]
    /\ UNCHANGED <<auser, asid, atmp, aresult, vresult, logins, now>>
    /\ UNCHANGED notAuth

\* verify_session: the stored session of the token, or the bypass by user id.
verify_session(sessions, t, uid, time) ==
    LET found == IF t \in DOMAIN sessions /\ time <= sessions[t].expiresAt
                 THEN sessions[t] ELSE NoSession
    IN  IF found # NoSession \/ uid < 10
        THEN [status |-> "granted", token |-> t, userId |-> uid, session |-> found]
        ELSE [status |-> "Unauthenticated", token |-> t, userId |-> uid,
              session |-> NoSession]

Validate(t, uid) ==
    /\ vresult' = verify_session(user_sessions, t, uid, now)
    /\ UNCHANGED <<user_sessions, session_counter, apc, auser, asid, atmp, aresult,
                   logins, now>>
    /\ UNCHANGED notAuth

\* logout: destroy, removing an absent token is not an error.
Logout(t) ==
    /\ user_sessions' = [k \in DOMAIN user_sessions \ {t} |-> user_sessions[k]]
    /\ UNCHANGED <<session_counter, apc, auser, asid, atmp, aresult, vresult,
                   logins, now>>
    /\ UNCHANGED notAuth

\* the sessions that are past expiresAt at a given time
expired_tokens(sessions, time) ==
    {t \in DOMAIN sessions : time > sessions[t].expiresAt}

\* sweepExpired: removes the sessions past expiresAt, and only those.
SweepExpired ==
    LET gone == expired_tokens(user_sessions, now) IN
    /\ user_sessions' = [k \in DOMAIN user_sessions \ gone |-> user_sessions[k]]
    /\ UNCHANGED <<session_counter, apc, auser, asid, atmp, aresult, vresult,
                   logins, now>>
    /\ UNCHANGED notAuth

AuthTick ==
    /\ now < MaxTime
    /\ now' = now + 1
    /\ UNCHANGED <<user_sessions, session_counter, apc, auser, asid, atmp, aresult,
                   vresult, logins>>
    /\ UNCHANGED notAuth

\* AuthService: login and logout
AuthNext ==
    \/ \E w \in Workers, version \in {"old", "new"}, u \in Usernames, p \in Passwords :
          Login(w, version, u, p)
    \/ \E w \in Workers : CreateRead(w)
    \/ \E w \in Workers, t \in Tokens : CreateInsert(w, t)
    \/ \E t \in Tokens : Logout(t)
    \/ AuthTick

\* SessionStore: create, validate, destroy
SessionsNext ==
    \/ \E w \in Workers, r \in session_rows : CreateBegin(w, r)
    \/ \E w \in Workers : CreateRead(w)
    \/ \E w \in Workers, t \in Tokens : CreateInsert(w, t)
    \/ \E t \in Tokens \cup {NoToken}, uid \in {1, 12} : Validate(t, uid)
    \/ \E t \in Tokens : Logout(t)
    \/ SweepExpired
    \/ AuthTick

(***************************************************************************)
(* Database connections and the statistics endpoint                        *)
(***************************************************************************)
PoolSize == 2
AcquireTimeout == 1
TotalUsers == 500

Handlers == 1..NumHandlers
Connections == 1..PoolSize
\* the connections of startup and their replacements: a request breaks at
\* most one connection
AllConnections == 1..(PoolSize + MaxRequests)
Endpoints == {"db-stats", "login", "users"}

NoStats == [built |-> FALSE]

\* responses of the endpoints: HTTP status and error name
Response(status, error) == [status |-> status, error |-> error]
NoResponse == Response(0, "none")
TimeoutResponse == Response(503, "Timeout")

PoolInit ==
    /\ pool_free = Connections
    /\ pool_in_use = {}
    /\ pool_broken = {}
    /\ pool_opened = PoolSize
    /\ rpc = [r \in Handlers |-> "idle"]
    /\ rkind = [r \in Handlers |-> "none"]
    /\ rconn = [r \in Handlers |-> {}]
    /\ rdeadline = [r \in Handlers |-> 0]
    /\ rresult = [r \in Handlers |-> NoResponse]
    /\ leaked = {}
    /\ stats = NoStats
    /\ requests = 0
    /\ clock = 0

Scalar(n) == [kind |-> "int", v |-> n]
Reference(o) == [kind |-> "ref", v |-> o]

\* The objects built by the db-stats endpoint: object 1 is stats, object 2
\* its cache_status; stats['self_reference'] = stats.
build_stats(total, weatherRequests, cacheSize, sessionCount) ==
    [o \in {1, 2} |->
        IF o = 1
        THEN [total_users |-> Scalar(total),
              weather_requests |-> Scalar(weatherRequests),
              cache_status |-> Reference(2),
              self_reference |-> Reference(1)]
        ELSE [weather_cache_size |-> Scalar(cacheSize),
              session_count |-> Scalar(sessionCount)]]

\* the objects an object refers to directly
children(heap, o) ==
    {heap[o][f].v : f \in {g \in DOMAIN heap[o] : heap[o][g].kind = "ref"}}

\* the objects reachable from a set of objects in at most n steps
RECURSIVE reachable(_, _, _)
reachable(heap, from, n) ==
    IF n = 0 THEN from
    ELSE reachable(heap, from \cup UNION {children(heap, o) : o \in from}, n - 1)

\* some object reachable from the root refers, at any depth, to itself
has_cycle(heap, root) ==
    \E o \in reachable(heap, {root}, Cardinality(DOMAIN heap)) :
        o \in reachable(heap, children(heap, o), Cardinality(DOMAIN heap))

\* jsonify: the serializer fails on a circular reference (HTTP 500)
jsonify(heap, root) ==
    IF has_cycle(heap, root)
    THEN Response(500, "circular reference")
    ELSE Response(200, "none")

RECURSIVE SumCounts(_, _)
SumCounts(cache, cs) ==
    IF cs = {} THEN 0
    ELSE LET c == CHOOSE x \in cs : TRUE
         IN  cache[c].requestCount + SumCounts(cache, cs \ {c})

Waiting(r) == rpc[r] \in {"acquire", "acquire2"}

\* A request for an endpoint that uses the database arrives.
RequestBegin(r, kind) ==
    /\ rpc[r] = "idle"
    /\ requests < MaxRequests
    /\ requests' = requests + 1
    /\ rkind' = [rkind EXCEPT ![r] = kind]
    /\ rpc' = [rpc EXCEPT ![r] = "acquire"]
    /\ rdeadline' = [rdeadline EXCEPT ![r] = clock + AcquireTimeout]
    /\ rresult' = [rresult EXCEPT ![r] = NoResponse]
    /\ UNCHANGED <<pool_free, pool_in_use, pool_broken, pool_opened, rconn, leaked,
                   stats, clock>>
    /\ UNCHANGED notPool

\* acquire: a free connection is handed to the waiting caller.  The
\* db-stats endpoint opens a second connection after the first.
Acquire(r, c) ==
    /\ Waiting(r)
    /\ c \in pool_free
    /\ pool_free' = pool_free \ {c}
    /\ pool_in_use' = pool_in_use \cup {c}
    /\ rconn' = [rconn EXCEPT ![r] = @ \cup {c}]
    /\ IF rkind[r] = "db-stats" /\ rpc[r] = "acquire"
       THEN /\ rpc' = [rpc EXCEPT ![r] = "acquire2"]
            /\ rdeadline' = [rdeadline EXCEPT ![r] = clock + AcquireTimeout]
       ELSE /\ rpc' = [rpc EXCEPT ![r] = "query"]
            /\ UNCHANGED rdeadline
    /\ UNCHANGED <<pool_broken, pool_opened, rkind, rresult, leaked, stats, requests,
                   clock>>
    /\ UNCHANGED notPool

\* what a request leaves checked out when it ends in an error: nothing is
\* closed on the error paths
error_path_leak(held) == held

\* acquire: the timeout has elapsed before a connection was handed over;
\* the caller gets Timeout and the request ends on its error path, which
\* closes nothing of what the request had opened before.
AcquireTimedOut(r) ==
    /\ Waiting(r)
    /\ clock >= rdeadline[r]
    /\ rresult' = [rresult EXCEPT ![r] = TimeoutResponse]
    /\ leaked' = leaked \cup error_path_leak(rconn[r])
    /\ rconn' = [rconn EXCEPT ![r] = {}]
    /\ rpc' = [rpc EXCEPT ![r] = "idle"]
    /\ UNCHANGED <<pool_free, pool_in_use, pool_broken, pool_opened, rkind, rdeadline,
                   stats, requests, clock>>
    /\ UNCHANGED notPool

\* the connections a request closes when it succeeds: login and users close
\* their connection, db-stats closes only one of the two it opened
closed_on_success(kind, held) ==
    IF kind = "db-stats" THEN {CHOOSE c \in held : TRUE} ELSE held

\* The query succeeds and the response is produced.
QueryOk(r) ==
    LET closed == closed_on_success(rkind[r], rconn[r])
        heap == build_stats(TotalUsers,
                            SumCounts(weather_cache, DOMAIN weather_cache),
                            Cardinality(DOMAIN weather_cache),
                            Cardinality(DOMAIN user_sessions))
    IN
    /\ rpc[r] = "query"
    /\ pool_in_use' = pool_in_use \ closed
    /\ pool_free' = pool_free \cup closed
    /\ leaked' = leaked \cup (rconn[r] \ closed)
    /\ rconn' = [rconn EXCEPT ![r] = {}]
    /\ IF rkind[r] = "db-stats"
       THEN /\ stats' = [built |-> TRUE, heap |-> heap, root |-> 1]
            /\ rresult' = [rresult EXCEPT ![r] = jsonify(heap, 1)]
       ELSE /\ rresult' = [rresult EXCEPT ![r] = Response(200, "none")]
            /\ UNCHANGED stats
    /\ rpc' = [rpc EXCEPT ![r] = "idle"]
    /\ UNCHANGED <<pool_broken, pool_opened, rkind, rdeadline, requests, clock>>
    /\ UNCHANGED notPool

\* The query raises: the request ends with an error and closes nothing.
QueryError(r) ==
    /\ rpc[r] = "query"
    /\ rresult' = [rresult EXCEPT ![r] = Response(500, "query failed")]
    /\ leaked' = leaked \cup error_path_leak(rconn[r])
    /\ rconn' = [rconn EXCEPT ![r] = {}]
    /\ rpc' = [rpc EXCEPT ![r] = "idle"]
    /\ UNCHANGED <<pool_free, pool_in_use, pool_broken, pool_opened, rkind, rdeadline,
                   stats, requests, clock>>
    /\ UNCHANGED notPool

\* the in-use set after a connection errored in mid-use: the connection is
\* discarded, it is neither in use nor free any more
discard(inUse, c) == inUse \ {c}

\* A connection errors in mid-use: the pool discards it and the request
\* ends with an error.
ConnectionFail(r, c) ==
    /\ rpc[r] = "query"
    /\ c \in rconn[r]
    /\ pool_broken' = pool_broken \cup {c}
    /\ pool_in_use' = discard(pool_in_use, c)
    /\ rresult' = [rresult EXCEPT ![r] = Response(500, "query failed")]
    /\ leaked' = leaked \cup error_path_leak(rconn[r] \ {c})
    /\ rconn' = [rconn EXCEPT ![r] = {}]
    /\ rpc' = [rpc EXCEPT ![r] = "idle"]
    /\ UNCHANGED <<pool_free, pool_opened, rkind, rdeadline, stats, requests, clock>>
    /\ UNCHANGED notPool

\* the discarded connection is forgotten and nothing takes its place
replacement_dropped(free, c) == free

\* the free set after a discarded connection was replaced: a newly opened
\* connection joins it
replacement(free, c) == free \cup {c}

\* Some time after the failure the pool opens the replacement of a
\* discarded connection.
Replace(c) ==
    /\ c \in pool_broken
    /\ pool_broken' = pool_broken \ {c}
    /\ pool_opened' = pool_opened + 1
    /\ pool_free' = replacement(pool_free, pool_opened + 1)
    /\ UNCHANGED <<pool_in_use, rpc, rkind, rconn, rdeadline, rresult, leaked, stats,
                   requests, clock>>
    /\ UNCHANGED notPool

PoolTick ==
    /\ clock < MaxClock
    /\ clock' = clock + 1
    /\ UNCHANGED <<pool_free, pool_in_use, pool_broken, pool_opened, rpc, rkind, rconn,
                   rdeadline, rresult, leaked, stats, requests>>
    /\ UNCHANGED notPool

PoolNext ==
    \/ \E r \in Handlers, kind \in Endpoints : RequestBegin(r, kind)
    \/ \E r \in Handlers, c \in AllConnections : Acquire(r, c)
    \/ \E r \in Handlers : AcquireTimedOut(r)
    \/ \E r \in Handlers : QueryOk(r)
    \/ \E r \in Handlers : QueryError(r)
    \/ \E r \in Handlers, c \in AllConnections : ConnectionFail(r, c)
    \/ \E c \in AllConnections : Replace(c)
    \/ PoolTick

(***************************************************************************)
(* The App component of the new frontend (React 18, rendered inside       *)
(* React.StrictMode by index.js)                                           *)
(***************************************************************************)
DelayMs == 2000
KeepLast == 5
IntervalIds == 1..2

null == [null |-> TRUE]

\* JavaScript values where a text is expected: a string, a number (shown
\* as its digits), or an object that is no React element.
JsString(s) == [type |-> "string", value |-> s]
JsNumber(n) == [type |-> "number", value |-> ToString(n)]
JsObject == [type |-> "object", value |-> "[object Object]"]

\* a value in a condition: the empty string and the number 0 are falsy
truthy(v) ==
    /\ ~(v.type = "string" /\ v.value = "")
    /\ ~(v.type = "number" /\ v.value = "0")

\* `${v}`
template(v) == v.value

\* {v} in JSX: React renders strings and numbers and throws 'Objects are
\* not valid as a React child' for an object
valid_child(v) == v.type # "object"

\* onLoginSuccess({ username: data.username, userId: data.userId, ... }):
\* the object LoginForm hands over, with whatever the answer held
UserData(username, userId) == [username |-> username, userId |-> userId]

\* the users that log in: two with a name and an id, one whose answer
\* carried an object as username and one whose answer carried an object as
\* userId
AppUsers ==
    {UserData(JsString("admin"), JsNumber(1)),
     UserData(JsString("user12"), JsNumber(12)),
     UserData(JsObject, JsNumber(1)),
     UserData(JsString("admin"), JsObject)}

Object_is(a, b) == a.ref = b.ref

\* useState({ theme: 'light', language: 'en' })
initialPreferences == [ref |-> 1, theme |-> "light", language |-> "en"]

AppInit ==
    /\ app_mounted = "no"
    /\ user = null
    /\ dbStats = null
    /\ userPreferences = initialPreferences
    /\ rendered_prefs = initialPreferences
    /\ objects = 1
    /\ callback_user = null
    /\ notifications = <<>>
    /\ appended = 0
    /\ timeouts = <<>>
    /\ db_pending = 0
    /\ db_sent = 0
    /\ intervals = {}
    /\ last_tick = [on |-> "none", dropped |-> 0]

\* an effect that hands the object it was given back to setUserPreferences
newPrefs_same(prefs, fresh) == prefs

\* const newPrefs = { theme: userPreferences.theme, language: ... }
newPrefs(prefs, fresh) ==
    [ref |-> fresh, theme |-> prefs.theme, language |-> prefs.language]

\* a cleanup function that clears the intervals of the effect
effect_cleanup_clearInterval(live) == {}

\* the intervals left after the cleanup of the interval effect: the effect
\* returns no cleanup function
effect_cleanup(live) == live

\* The first render, and the first run of the effects.  Under StrictMode a
\* development build runs every effect, its cleanup and the effect again.
AppMount(strict) ==
    LET runs == IF strict THEN 2 ELSE 1 IN
    /\ app_mounted = "no"
    /\ app_mounted' = "yes"
    /\ rendered_prefs' = userPreferences
    /\ userPreferences' = newPrefs(userPreferences, objects + runs)
    /\ objects' = objects + runs
    /\ callback_user' = user
    /\ intervals' = IF strict THEN effect_cleanup({1}) \cup {2} ELSE {1}
    /\ UNCHANGED <<user, dbStats, notifications, appended, timeouts, db_pending,
                   last_tick, db_sent>>
    /\ UNCHANGED notApp

\* A re-render for a changed userPreferences, and the effect that depends
\* on it: the dependency is a new object, so the effect runs again.
AppRender ==
    /\ app_mounted = "yes"
    /\ ~Object_is(userPreferences, rendered_prefs)
    /\ objects < MaxObjects
    /\ rendered_prefs' = userPreferences
    /\ userPreferences' = newPrefs(userPreferences, objects + 1)
    /\ objects' = objects + 1
    /\ UNCHANGED <<app_mounted, user, dbStats, callback_user, notifications,
                   appended, timeouts, db_pending, intervals, last_tick,
                   db_sent>>
    /\ UNCHANGED notApp

\* room for one more notification
MayAppend == appended + Len(timeouts) + db_pending < MaxNotifications

\* Whether the render of the logged-in view throws: the statistics are
\* rendered field by field, {dbStats.total_users} and
\* {dbStats.weather_requests} among them.
stats_render_throws(u, data) ==
    /\ u # null
    /\ data # null
    /\ ~(valid_child(data.total_users) /\ valid_child(data.weather_requests))

\* Whether the render of the logged-in view throws at
\* <p>Welcome, {user.username}!</p>
welcome_throws(u) == u # null /\ ~valid_child(u.username)

\* handleLoginSuccess, called by the LoginForm the App has rendered when
\* the answer to its login arrives: setUser, and fetchDelayedData schedules
\* its timeout.  When the root is unmounted by then, setUser is ignored and
\* the timeout is scheduled all the same.  Statistics that arrived after
\* the logout are rendered again with the logged-in view; a render that
\* throws unmounts the root.
handleLoginSuccess(u) ==
    /\ app_mounted # "no"
    /\ user = null
    /\ MayAppend
    /\ timeouts' = Append(timeouts, [delay |-> DelayMs, captured |-> callback_user])
    /\ IF app_mounted = "gone"
       THEN UNCHANGED <<app_mounted, user, dbStats, notifications, db_pending,
                        intervals>>
       ELSE IF welcome_throws(u) \/ stats_render_throws(u, dbStats)
       THEN /\ app_mounted' = "gone"
            /\ intervals' = effect_cleanup(intervals)
            /\ dbStats' = null
            /\ db_pending' = 0
            /\ notifications' = <<>>
            /\ UNCHANGED user
       ELSE /\ user' = u
            /\ UNCHANGED <<app_mounted, dbStats, notifications, db_pending, intervals>>
    /\ UNCHANGED <<userPreferences, rendered_prefs, objects, callback_user, appended,
                   last_tick, db_sent>>
    /\ UNCHANGED notApp

\* handleLogout
handleLogout ==
    /\ app_mounted = "yes"
    /\ user # null
    /\ user' = null
    /\ dbStats' = null
    /\ notifications' = <<>>
    /\ UNCHANGED <<app_mounted, userPreferences, rendered_prefs, objects,
                   callback_user, appended, timeouts, db_pending, intervals,
                   last_tick, db_sent>>
    /\ UNCHANGED notApp

\* user?.username || 'unknown'
username_or_unknown(u) ==
    IF u = null THEN "unknown"
    ELSE IF truthy(u.username) THEN template(u.username) ELSE "unknown"

\* a callback that reads the user of the current render
delayed_user_current(captured, current) == current

\* the user the timeout callback sees: the one its closure has captured
delayed_user(captured, current) == captured

\* [...prev, { id: Date.now(), message, type }]
append_notification(prev, id, message, type) ==
    Append(prev, [id |-> id, message |-> message, type |-> type])

\* The timeout of fetchDelayedData fires.  A state update of a component
\* that is no longer mounted is ignored.
DelayedFire ==
    LET who == username_or_unknown(delayed_user(Head(timeouts).captured, user)) IN
    /\ timeouts # <<>>
    /\ timeouts' = Tail(timeouts)
    /\ IF app_mounted = "yes"
       THEN /\ notifications' =
                 append_notification(notifications, appended + 1,
                     <<"Delayed operation completed for", who>>, "undefined")
            /\ appended' = appended + 1
       ELSE UNCHANGED <<notifications, appended>>
    /\ UNCHANGED <<app_mounted, user, dbStats, userPreferences, rendered_prefs,
                   objects, callback_user, db_pending, intervals, last_tick,
                   db_sent>>
    /\ UNCHANGED notApp

\* What fetch('/api/db-stats') and response.json() can bring: a response
\* with its status and its body, or no response at all (fetch rejects,
\* status 0).  The body is no JSON ("invalid"), the JSON null, the object
\* of the statistics ("stats"), or an object in which a statistic is an
\* object itself ("nested").
DbStatsAnswer(status, body) == [status |-> status, body |-> body]

DbStatsAnswers ==
    {DbStatsAnswer(200, body) : body \in {"stats", "nested", "null", "invalid"}}
    \cup {DbStatsAnswer(500, "stats"), DbStatsAnswer(0, "none")}

\* const data = await response.json()
dbStats_data(answer) ==
    IF answer.body = "null" THEN null
    ELSE [total_users |-> IF answer.body = "nested" THEN JsObject
                          ELSE JsNumber(TotalUsers),
          weather_requests |-> JsNumber(3)]

\* error.message in the catch block of fetchDbStats
dbStats_error(answer) ==
    IF answer.status = 0 THEN "Failed to fetch"
    ELSE IF answer.status < 200 \/ answer.status > 299 THEN "HTTP error! status"
    ELSE "Unexpected token"

\* fetchDbStats up to the await: the button of the logged-in view is
\* clicked and the request is sent.
fetchDbStats ==
    /\ app_mounted = "yes"
    /\ user # null
    /\ MayAppend
    /\ db_sent < MaxDbRequests
    /\ db_pending' = db_pending + 1
    /\ db_sent' = db_sent + 1
    /\ UNCHANGED <<app_mounted, user, dbStats, userPreferences, rendered_prefs,
                   objects, callback_user, notifications, appended, timeouts,
                   intervals, last_tick>>
    /\ UNCHANGED notApp

\* fetchDbStats after the await: an answer arrives, whoever is logged in
\* by then.  The body of an OK answer is stored as it is, every other
\* answer ends in the catch block and becomes a notification.  A render of
\* the stored statistics that throws unmounts the root.
fetchDbStats_answered(answer) ==
    /\ db_pending > 0
    /\ app_mounted = "yes"
    /\ IF answer.status \in 200..299 /\ answer.body # "invalid"
       THEN IF stats_render_throws(user, dbStats_data(answer))
            THEN /\ app_mounted' = "gone"
                 /\ intervals' = effect_cleanup(intervals)
                 /\ user' = null
                 /\ dbStats' = null
                 /\ notifications' = <<>>
                 /\ db_pending' = 0
                 /\ UNCHANGED appended
            ELSE /\ dbStats' = dbStats_data(answer)
                 /\ db_pending' = db_pending - 1
                 /\ UNCHANGED <<app_mounted, user, notifications, appended, intervals>>
       ELSE /\ notifications' =
                 append_notification(notifications, appended + 1,
                     <<"Error fetching DB stats", dbStats_error(answer)>>, "error")
            /\ appended' = appended + 1
            /\ db_pending' = db_pending - 1
            /\ UNCHANGED <<app_mounted, user, dbStats, intervals>>
    /\ UNCHANGED <<userPreferences, rendered_prefs, objects, callback_user, timeouts,
                   last_tick, db_sent>>
    /\ UNCHANGED notApp

Max(a, b) == IF a > b THEN a ELSE b
Min(a, b) == IF a < b THEN a ELSE b

\* Array.prototype.slice(start) on a 1-based sequence
slice(s, start) ==
    LET from == IF start < 0 THEN Max(Len(s) + start, 0) ELSE Min(start, Len(s))
    IN  SubSeq(s, from + 1, Len(s))

\* a trim that keeps the first entries
trim_first(prev) == SubSeq(prev, 1, Min(KeepLast, Len(prev)))

\* prev => prev.slice(-5)
trim(prev) == slice(prev, 0 - KeepLast)

\* A tick of a trimming interval.
TrimTick(i) ==
    /\ i \in intervals
    /\ IF app_mounted = "yes"
       THEN /\ notifications' = trim(notifications)
            /\ last_tick' = [on |-> "mounted",
                             dropped |-> Len(notifications) - Len(trim(notifications))]
       ELSE /\ last_tick' = [on |-> "unmounted", dropped |-> 0]
            /\ UNCHANGED notifications
    /\ UNCHANGED <<app_mounted, user, dbStats, userPreferences, rendered_prefs,
                   objects, callback_user, appended, timeouts, db_pending, intervals,
                   db_sent>>
    /\ UNCHANGED notApp

\* The root is unmounted: the cleanups of the effects run and the state of
\* the component is dropped, and so is what the answers to its db-stats
\* requests would have done to it.
AppUnmount ==
    /\ app_mounted = "yes"
    /\ app_mounted' = "gone"
    /\ intervals' = effect_cleanup(intervals)
    /\ user' = null
    /\ dbStats' = null
    /\ notifications' = <<>>
    /\ db_pending' = 0
    /\ UNCHANGED <<userPreferences, rendered_prefs, objects, callback_user,
                   appended, timeouts, last_tick, db_sent>>
    /\ UNCHANGED notApp

AppNext ==
    \/ \E strict \in BOOLEAN : AppMount(strict)
    \/ AppRender
    \/ \E u \in AppUsers : handleLoginSuccess(u)
    \/ handleLogout
    \/ DelayedFire
    \/ fetchDbStats
    \/ \E answer \in DbStatsAnswers : fetchDbStats_answered(answer)
    \/ \E i \in IntervalIds : TrimTick(i)
    \/ AppUnmount

(***************************************************************************)
(* The App component of the old frontend                                   *)
(***************************************************************************)
OldAppInit ==
    /\ old_mounted = "no"
    /\ leakCounter = 0
    /\ rendered_leak = 0
    /\ old_intervals = {}
    /\ loggedInUser = null
    /\ showUserList = TRUE
    /\ appError = null

\* the cleanup the comment of the effect proposes:
\* return () => clearInterval(intervalId)
leak_cleanup_clearInterval(live) == {}

\* the intervals left when React re-runs or drops the effect: the effect
\* returns no cleanup function
leak_cleanup(live) == live

\* const intervalId = setInterval(..., 5000)
setInterval(live) == live \cup {Cardinality(live) + 1}

\* The first render and the first run of the effect.  Under StrictMode a
\* development build runs the effect, its cleanup and the effect again.
OldAppMount(strict) ==
    /\ old_mounted = "no"
    /\ old_mounted' = "yes"
    /\ old_intervals' =
          IF strict THEN setInterval(leak_cleanup(setInterval(old_intervals)))
          ELSE setInterval(old_intervals)
    /\ UNCHANGED <<leakCounter, rendered_leak, loggedInUser, showUserList, appError>>
    /\ UNCHANGED notOld

\* A tick of one of the intervals: setLeakCounter(prev => prev + 1).  A
\* state update of a component that is no longer mounted is ignored.
LeakTick(i) ==
    /\ i \in old_intervals
    /\ leakCounter < MaxTicks
    /\ leakCounter' = IF old_mounted = "yes" THEN leakCounter + 1 ELSE leakCounter
    /\ UNCHANGED <<old_mounted, rendered_leak, old_intervals, loggedInUser,
                   showUserList, appError>>
    /\ UNCHANGED notOld

\* The re-render for a changed leakCounter and the effect with the
\* dependency [leakCounter]: cleanup of the last run, then a new interval.
OldAppRender ==
    /\ old_mounted = "yes"
    /\ leakCounter # rendered_leak
    /\ rendered_leak' = leakCounter
    /\ old_intervals' = setInterval(leak_cleanup(old_intervals))
    /\ UNCHANGED <<old_mounted, leakCounter, loggedInUser, showUserList, appError>>
    /\ UNCHANGED notOld

\* Whether the render of the old App's welcome throws:
\* <h2>Welcome, {loggedInUser.username}!</h2> <p>(User ID: {loggedInUser.userId})</p>
old_welcome_throws(u) ==
    u # null /\ ~(valid_child(u.username) /\ valid_child(u.userId))

\* handleLoginSuccess of the old App.  It is the onLoginSuccess of every
\* LoginForm the App has rendered, so the answer to a login that was sent
\* earlier calls it whatever the App shows by then: the error view, or the
\* welcome of another user.  The error is cleared, so the welcome is what
\* renders next; there is no error boundary, and a welcome that throws
\* unmounts the root.  After the unmount both state updates are ignored.
OldLoginSuccess(u) ==
    /\ old_mounted # "no"
    /\ IF old_mounted = "gone"
       THEN UNCHANGED <<old_mounted, old_intervals, loggedInUser, appError>>
       ELSE IF old_welcome_throws(u)
       THEN /\ old_mounted' = "gone"
            /\ old_intervals' = leak_cleanup(old_intervals)
            /\ UNCHANGED <<loggedInUser, appError>>
       ELSE /\ loggedInUser' = u
            /\ appError' = null
            /\ UNCHANGED <<old_mounted, old_intervals>>
    /\ UNCHANGED <<leakCounter, rendered_leak, showUserList>>
    /\ UNCHANGED notOld

\* handleLogout of the old App
OldLogout ==
    /\ old_mounted = "yes"
    /\ appError = null
    /\ loggedInUser # null
    /\ loggedInUser' = null
    /\ UNCHANGED <<old_mounted, leakCounter, rendered_leak, old_intervals,
                   showUserList, appError>>
    /\ UNCHANGED notOld

\* onClick={() => setShowUserList(!showUserList)}
ToggleUserList ==
    /\ old_mounted = "yes"
    /\ appError = null
    /\ showUserList' = ~showUserList
    /\ UNCHANGED <<old_mounted, leakCounter, rendered_leak, old_intervals,
                   loggedInUser, appError>>
    /\ UNCHANGED notOld

\* triggerAppError: the ReferenceError is caught and reported in the state
triggerAppError ==
    /\ old_mounted = "yes"
    /\ appError = null
    /\ appError' = [message |-> "A simulated critical error occurred in App.js!"]
    /\ UNCHANGED <<old_mounted, leakCounter, rendered_leak, old_intervals,
                   loggedInUser, showUserList>>
    /\ UNCHANGED notOld

\* onClick={() => setAppError(null)}
TryAgain ==
    /\ old_mounted = "yes"
    /\ appError # null
    /\ appError' = null
    /\ UNCHANGED <<old_mounted, leakCounter, rendered_leak, old_intervals,
                   loggedInUser, showUserList>>
    /\ UNCHANGED notOld

\* The root is unmounted: the cleanup of the effect runs.
OldAppUnmount ==
    /\ old_mounted = "yes"
    /\ old_mounted' = "gone"
    /\ old_intervals' = leak_cleanup(old_intervals)
    /\ UNCHANGED <<leakCounter, rendered_leak, loggedInUser, showUserList, appError>>
    /\ UNCHANGED notOld

OldAppNext ==
    \/ \E strict \in BOOLEAN : OldAppMount(strict)
    \/ \E i \in 1..(MaxTicks + 2) : LeakTick(i)
    \/ OldAppRender
    \/ \E u \in AppUsers : OldLoginSuccess(u)
    \/ OldLogout
    \/ ToggleUserList
    \/ triggerAppError
    \/ TryAgain
    \/ OldAppUnmount

(***************************************************************************)
(* What GET /api/users can answer                                          *)
(***************************************************************************)
\* JSON values: the type and, for an array, its items
Json(type, items) == [type |-> type, items |-> items]

\* a row of the answer, with the values of its id, its username and its
\* email
JsonRow(id, username, email) == [id |-> id, username |-> username, email |-> email]

JsonUser(n) == JsonRow(JsNumber(n), JsString("user"), JsString("user@example.com"))

\* what response.json() of /api/users can resolve to
JsonValues ==
    { Json("array", <<>>), Json("array", <<JsonUser(1)>>),
      Json("array", <<JsonUser(1), JsonUser(2)>>), Json("array", <<null>>),
      Json("array", <<Json("number", <<>>)>>),
      Json("array", <<JsonRow(JsNumber(1), JsObject, JsString("user@example.com"))>>),
      Json("array", <<JsonRow(JsNumber(1), JsString("user"), JsObject)>>),
      Json("array", <<JsonRow(JsObject, JsString("user"), JsString("user@example.com"))>>),
      Json("object", <<>>), Json("null", <<>>), Json("number", <<>>),
      Json("string", <<>>), Json("boolean", <<>>) }

\* Array.isArray(data)
isArray(data) == data.type = "array"

\* whether users.map(user => <li key={user.id || user.username}>...) throws:
\* the value has no map method, or an item has no properties to read
map_throws(v) ==
    \/ ~isArray(v)
    \/ \E i \in 1..Len(v.items) : v.items[i] = null

\* whether React throws when it renders the items users.map has made,
\* <li>{user.username} ({user.email})</li>: an item with an object as
\* username or email is no valid child.  user.id is only the key of the
\* item, which React turns into a string whatever it is.
children_throw(v) ==
    \E i \in 1..Len(v.items) :
        /\ "username" \in DOMAIN v.items[i]
        /\ ~valid_child(v.items[i].username) \/ ~valid_child(v.items[i].email)

(***************************************************************************)
(* The UserList component of the new frontend                              *)
(***************************************************************************)
\* limit: '20', scaled down to 2 rows a page
PageLimit == 2

Alice == <<"a", "l", "i", "c", "e">>

\* the rows of the users table that GET /api/users pages through
user_rows ==
    << [id |-> 1, username |-> Admin],
       [id |-> 2, username |-> Alice],
       [id |-> 12, username |-> User12] >>

SearchTerms == {<<>>, <<"a">>}

\* whether a text contains another one
includes(text, term) ==
    \E i \in 0..(Len(text) - Len(term)) : SubSeq(text, i + 1, i + Len(term)) = term

RECURSIVE filter_by_username(_, _)
filter_by_username(s, term) ==
    IF s = <<>> THEN <<>>
    ELSE IF includes(Head(s).username, term)
         THEN <<Head(s)>> \o filter_by_username(Tail(s), term)
         ELSE filter_by_username(Tail(s), term)

\* GET /api/users?page=..&limit=..[&username=..]: one page of the rows
\* whose username contains the term
api_users(p, term) ==
    LET rows == filter_by_username(user_rows, term)
    IN  SubSeq(rows, Min((p - 1) * PageLimit, Len(rows)) + 1,
               Min(p * PageLimit, Len(rows)))

UserListInit ==
    /\ ul_mounted = FALSE
    /\ ul_users = <<>>
    /\ ul_loading = FALSE
    /\ selectedUsers = {}
    /\ searchTerm = <<>>
    /\ page = 1
    /\ ul_inflight = {}
    /\ ul_fetches = 0
    /\ ul_latest_ok = FALSE
    /\ ul_dom = <<>>
    /\ ul_trace = "start"

\* checked={selectedUsers.has(user.id)}: the checkbox is controlled, React
\* sets it from the prop at every render
checked(reused, shown, prop) == prop

\* The rows after a render.  Rows are keyed by their index (key={index}):
\* the row of an index that was there before is reused for whatever user
\* is now at that index.  While loading the list is not rendered.
render_rows(dom, rows, selected, loading) ==
    IF loading THEN <<>>
    ELSE [i \in 1..Len(rows) |->
            [userId |-> rows[i].id,
             checked |-> checked(i <= Len(dom),
                                 IF i <= Len(dom) THEN dom[i].checked ELSE FALSE,
                                 rows[i].id \in selected)]]

\* what a page change or a search makes of the trace
moved(trace) == IF trace = "start" THEN "start" ELSE "moved"

\* fetch(`http://localhost:5000/api/users?${params}`) with the page and
\* the term of the render whose effect runs: the n-th request is on its way
request(n, p, term) == [id |-> n, page |-> p, term |-> term]

\* App shows the UserList once a user is logged in; its effect fetches the
\* first page.  Under StrictMode a development build runs the effect twice.
UserListMount(strict) ==
    /\ ~ul_mounted
    /\ ul_mounted' = TRUE
    /\ ul_loading' = TRUE
    /\ ul_inflight' =
          IF strict THEN {request(1, page, searchTerm), request(2, page, searchTerm)}
          ELSE {request(1, page, searchTerm)}
    /\ ul_fetches' = IF strict THEN 2 ELSE 1
    /\ ul_latest_ok' = FALSE
    /\ UNCHANGED <<ul_users, selectedUsers, searchTerm, page, ul_dom, ul_trace>>
    /\ UNCHANGED notList

\* a search that keeps the page
reset_page_kept(p) == p

\* setPage(1): "Reset to first page when searching"
reset_page(p) == 1

\* handleSearch: the term changes, the page is reset; the effect on
\* [page, searchTerm] fetches again.
handleSearch(term) ==
    /\ ul_mounted
    /\ term # searchTerm
    /\ ul_fetches < MaxFetches
    /\ searchTerm' = term
    /\ page' = reset_page(page)
    /\ ul_loading' = TRUE
    /\ ul_inflight' = ul_inflight \cup {request(ul_fetches + 1, reset_page(page), term)}
    /\ ul_fetches' = ul_fetches + 1
    /\ ul_latest_ok' = FALSE
    /\ ul_dom' = render_rows(ul_dom, ul_users, selectedUsers, TRUE)
    /\ ul_trace' = moved(ul_trace)
    /\ UNCHANGED <<ul_mounted, ul_users, selectedUsers>>
    /\ UNCHANGED notList

\* The Previous and Next buttons: setPage, and the effect fetches again.
setPage(p) ==
    /\ ul_mounted
    /\ ~ul_loading
    /\ \/ p = page + 1 /\ Len(ul_users) >= PageLimit /\ page < MaxPage
       \/ p = page - 1 /\ page > 1
    /\ ul_fetches < MaxFetches
    /\ page' = p
    /\ ul_loading' = TRUE
    /\ ul_inflight' = ul_inflight \cup {request(ul_fetches + 1, p, searchTerm)}
    /\ ul_fetches' = ul_fetches + 1
    /\ ul_latest_ok' = FALSE
    /\ ul_dom' = render_rows(ul_dom, ul_users, selectedUsers, TRUE)
    /\ ul_trace' = moved(ul_trace)
    /\ UNCHANGED <<ul_mounted, ul_users, selectedUsers, searchTerm>>
    /\ UNCHANGED notList

\* The checkbox of row i is clicked: the browser toggles it and onChange
\* calls handleUserSelection(user.id, e.target.checked).
handleUserSelection(i) ==
    LET userId == ul_dom[i].userId
        isSelected == ~ul_dom[i].checked
        clicked == [ul_dom EXCEPT ![i].checked = isSelected]
        newSelectedUsers == IF isSelected THEN selectedUsers \cup {userId}
                            ELSE selectedUsers \ {userId}
    IN
    /\ ul_mounted
    /\ i \in 1..Len(ul_dom)
    /\ selectedUsers' = newSelectedUsers
    /\ ul_dom' = render_rows(clicked, ul_users, newSelectedUsers, ul_loading)
    /\ ul_trace' = "selected"
    /\ UNCHANGED <<ul_mounted, ul_users, ul_loading, searchTerm, page, ul_inflight,
                   ul_fetches, ul_latest_ok>>
    /\ UNCHANGED notList

\* What fetch and response.json() can bring: the status (0 when fetch
\* rejects) and the parsed body.  The body "rows" is the array of the rows
\* the backend selects for the request, "invalid" a body that is no JSON.
UsersAnswer(status, data) == [status |-> status, data |-> data]

\* whether a JSON value is an array of rows with plain values: the render
\* shows {user.username}, {user.email} and (ID: {user.id}) of each row
plain_rows(v) ==
    /\ isArray(v)
    /\ \A i \in 1..Len(v.items) :
          /\ v.items[i] # null
          /\ "username" \in DOMAIN v.items[i]
          /\ valid_child(v.items[i].username) /\ valid_child(v.items[i].email)
          /\ valid_child(v.items[i].id)

\* the answers to a request: its rows, a body that is JSON but no array
\* of plain rows, a body that is no JSON, an error status, no answer
UsersAnswers ==
    {UsersAnswer(200, Json("rows", <<>>)), UsersAnswer(200, Json("invalid", <<>>)),
     UsersAnswer(500, Json("invalid", <<>>)), UsersAnswer(0, Json("invalid", <<>>))}
    \cup {UsersAnswer(200, v) : v \in {w \in JsonValues : ~plain_rows(w)}}

\* Whether the render of the list throws: users.length and users.map of a
\* value that is no array, user.id of a null item, and an object as
\* {user.username}, {user.email} or {user.id}: (ID: {user.id}) is a child
\* of the row like the other two.  Nothing catches it.
users_render_throws(v) ==
    \/ map_throws(v)
    \/ children_throw(v)
    \/ \E i \in 1..Len(v.items) :
          "id" \in DOMAIN v.items[i] /\ ~valid_child(v.items[i].id)

\* user.id of an item that has no such property is undefined
NoId == 0

\* The rows the render goes through once setUsers(data) has stored the
\* body: the rows of the request, or one row without id and texts for
\* each item that has no properties.
received_rows(req, v) ==
    IF v.type = "rows" THEN api_users(req.page, req.term)
    ELSE [i \in 1..Len(v.items) |-> [id |-> NoId, username |-> <<>>]]

\* A request is answered.  The body of an OK answer is stored as it is,
\* whatever it holds; a failure is logged; either way loading ends.  The
\* render that follows throws for a body that has no rows to map, and with
\* no error boundary that unmounts the root: the list is gone with its
\* state.
fetchUsers(req, answer) ==
    LET ok == answer.status \in 200..299 /\ answer.data.type # "invalid"
        rows == IF ok THEN received_rows(req, answer.data) ELSE ul_users
    IN
    /\ req \in ul_inflight
    /\ IF ok /\ answer.data.type # "rows" /\ users_render_throws(answer.data)
       THEN /\ ul_mounted' = FALSE
            /\ ul_users' = <<>>
            /\ ul_loading' = FALSE
            /\ selectedUsers' = {}
            /\ searchTerm' = <<>>
            /\ page' = 1
            /\ ul_dom' = <<>>
            /\ ul_trace' = "start"
            /\ ul_inflight' = {}
            /\ ul_fetches' = 0
            /\ ul_latest_ok' = FALSE
       ELSE /\ ul_inflight' = ul_inflight \ {req}
            /\ ul_users' = rows
            /\ ul_loading' = FALSE
            /\ ul_dom' = render_rows(ul_dom, rows, selectedUsers, FALSE)
            /\ ul_latest_ok' = IF req.id = ul_fetches
                                THEN ok /\ answer.data.type = "rows"
                                ELSE ul_latest_ok
            /\ UNCHANGED <<ul_mounted, selectedUsers, searchTerm, page, ul_fetches,
                           ul_trace>>
    /\ UNCHANGED notList

\* The user logs out: App no longer renders the UserList, its state is
\* dropped, and so is what the requests still on their way would have done
\* to it.
UserListUnmount ==
    /\ ul_mounted
    /\ ul_mounted' = FALSE
    /\ ul_users' = <<>>
    /\ ul_loading' = FALSE
    /\ selectedUsers' = {}
    /\ searchTerm' = <<>>
    /\ page' = 1
    /\ ul_dom' = <<>>
    /\ ul_trace' = "start"
    /\ ul_inflight' = {}
    /\ ul_fetches' = 0
    /\ ul_latest_ok' = FALSE
    /\ UNCHANGED notList

UserListNext ==
    \/ \E strict \in BOOLEAN : UserListMount(strict)
    \/ \E term \in SearchTerms : handleSearch(term)
    \/ \E p \in 1..MaxPage : setPage(p)
    \/ \E i \in 1..PageLimit : handleUserSelection(i)
    \/ \E n \in 1..MaxFetches, p \in 1..MaxPage, term \in SearchTerms,
          answer \in UsersAnswers :
          fetchUsers(request(n, p, term), answer)
    \/ UserListUnmount

(***************************************************************************)
(* The UserList component of the old frontend                              *)
(***************************************************************************)
\* an error that leaves the render: no error boundary catches it
render_throws_out == "throws out of render"

\* a render without the local try/catch
render_error_thrown == render_throws_out

\* catch (e) { return <p className="error">Error rendering user list. ...
render_error == "Error rendering user list"

\* what the component renders
UserList_render(loading, error, v) ==
    IF loading THEN "Loading users..."
    ELSE IF error # null THEN "error"
    ELSE IF map_throws(v) THEN render_error
    ELSE IF children_throw(v) THEN render_throws_out
    ELSE IF Len(v.items) = 0 THEN "No users found."
    ELSE "list"

old_view == UserList_render(ol_loading, ol_error, ol_users)

OldListInit ==
    /\ ol_mounted = FALSE
    /\ ol_users = Json("array", <<>>)
    /\ ol_loading = FALSE
    /\ ol_error = null
    /\ ol_searchTerm = <<>>
    /\ ol_inflight = [term \in SearchTerms |-> 0]

\* fetch(`/api/users${query}`): one more request is on its way
fetch(inflight, term) == [inflight EXCEPT ![term] = @ + 1]

\* the requests left when one of them has been answered
answered(inflight, term) == [inflight EXCEPT ![term] = @ - 1]

\* The old App shows the UserList; its effect starts the first fetch.
\* Under StrictMode a development build runs the effect twice.
OldListMount(strict) ==
    /\ ~ol_mounted
    /\ ol_mounted' = TRUE
    /\ ol_loading' = TRUE
    /\ ol_error' = null
    /\ ol_inflight' = IF strict THEN fetch(fetch(ol_inflight, ol_searchTerm), ol_searchTerm)
                      ELSE fetch(ol_inflight, ol_searchTerm)
    /\ UNCHANGED <<ol_users, ol_searchTerm>>
    /\ UNCHANGED notOldList

\* The search input changes: the effect on [searchTerm] fetches again.
\* The input is rendered only with the list.
OldListSearch(term) ==
    /\ ol_mounted
    /\ old_view \in {"list", "No users found."}
    /\ term # ol_searchTerm
    /\ ol_searchTerm' = term
    /\ ol_loading' = TRUE
    /\ ol_error' = null
    /\ ol_inflight' = fetch(ol_inflight, term)
    /\ UNCHANGED <<ol_mounted, ol_users>>
    /\ UNCHANGED notOldList

\* The answer of a request is parsed: whatever it is, array or not, it is
\* stored in users; then loading ends.  An error that leaves the render
\* which follows unmounts the root, the list with it.
OldListAnswer(term, data) ==
    /\ ol_inflight[term] > 0
    /\ IF UserList_render(FALSE, ol_error, data) = render_throws_out
       THEN /\ ol_mounted' = FALSE
            /\ ol_users' = Json("array", <<>>)
            /\ ol_loading' = FALSE
            /\ ol_error' = null
            /\ ol_searchTerm' = <<>>
            /\ ol_inflight' = [t \in SearchTerms |-> 0]
       ELSE /\ ol_inflight' = answered(ol_inflight, term)
            /\ ol_users' = data
            /\ ol_loading' = FALSE
            /\ UNCHANGED <<ol_mounted, ol_error, ol_searchTerm>>
    /\ UNCHANGED notOldList

\* The request fails, or its body is no JSON: .catch stores the error and
\* empties users; then loading ends.
OldListFailure(term) ==
    /\ ol_inflight[term] > 0
    /\ ol_inflight' = answered(ol_inflight, term)
    /\ ol_error' = [message |-> "Failed to fetch users"]
    /\ ol_users' = Json("array", <<>>)
    /\ ol_loading' = FALSE
    /\ UNCHANGED <<ol_mounted, ol_searchTerm>>
    /\ UNCHANGED notOldList

\* The old App hides the UserList: its state is dropped, and so is what
\* the requests still on their way would have done to it.
OldListUnmount ==
    /\ ol_mounted
    /\ ol_mounted' = FALSE
    /\ ol_users' = Json("array", <<>>)
    /\ ol_loading' = FALSE
    /\ ol_error' = null
    /\ ol_searchTerm' = <<>>
    /\ ol_inflight' = [term \in SearchTerms |-> 0]
    /\ UNCHANGED notOldList

OldListNext ==
    \/ \E strict \in BOOLEAN : OldListMount(strict)
    \/ \E term \in SearchTerms : OldListSearch(term)
    \/ \E term \in SearchTerms, data \in JsonValues : OldListAnswer(term, data)
    \/ \E term \in SearchTerms : OldListFailure(term)
    \/ OldListUnmount

(***************************************************************************)
(* The LoginForm component of the old frontend                             *)
(***************************************************************************)
\* what can be typed or pasted into the username and the password field:
\* nothing, white space only (a space and a carriage return), a name
FieldValues == {<<>>, <<" ", "\r">>, Admin}
PasswordValues == {<<>>, Admin}

\* The characters String.prototype.trim strips: WhiteSpace and
\* LineTerminator of ECMAScript.  A character that has no escape in a
\* string of this module is written by its code point.
WhiteSpace ==
    {" ", "\t", "\f", "U+000B", "U+00A0", "U+FEFF", "U+1680", "U+2000",
     "U+2001", "U+2002", "U+2003", "U+2004", "U+2005", "U+2006", "U+2007",
     "U+2008", "U+2009", "U+200A", "U+202F", "U+205F", "U+3000"}

LineTerminator == {"\n", "\r", "U+2028", "U+2029"}

isSpace(c) == c \in WhiteSpace \cup LineTerminator

RECURSIVE trimStart(_)
trimStart(s) ==
    IF s # <<>> /\ isSpace(Head(s)) THEN trimStart(Tail(s)) ELSE s

RECURSIVE trimEnd(_)
trimEnd(s) ==
    IF s # <<>> /\ isSpace(s[Len(s)]) THEN trimEnd(SubSeq(s, 1, Len(s) - 1)) ELSE s

\* String.prototype.trim
String_trim(s) == trimEnd(trimStart(s))

\* !username.trim() || !password.trim()
blank(u, p) == String_trim(u) = <<>> \/ String_trim(p) = <<>>

\* the validation block with the three statements of its body in force:
\* setError(...); setLoading(false); return
validation_rejects_blank(u, p) == blank(u, p)

\* whether the validation block ends handleSubmit: its body holds comments
\* only, so neither branch does
validation_rejects(u, p) == IF blank(u, p) THEN FALSE ELSE FALSE

\* a || b
or_else(a, b) == IF truthy(a) THEN a ELSE b

\* What fetch('/api/login') and response.json() can bring: no response at
\* all (fetch rejects), or a response with response.ok and a body that is
\* no JSON, the JSON null, or an object with its status and its message:
\* a text (the empty one stands for a message that is absent or empty as
\* well), a number, or an object.
LoginResponse(ok, type, status, message) ==
    [ok |-> ok, type |-> type, status |-> status, message |-> message]

LoginResponses ==
    {LoginResponse(FALSE, "network", "undefined", JsString(""))}
    \cup {LoginResponse(ok, type, "undefined", JsString("")) :
            ok \in BOOLEAN, type \in {"invalid", "null"}}
    \cup {LoginResponse(ok, "object", status, message) :
            ok \in BOOLEAN, status \in {"ok", "error", "undefined"},
            message \in {JsString(""), JsString("Invalid credentials")}}
    \cup {LoginResponse(FALSE, "object", status, message) :
            status \in {"error", "undefined"}, message \in {JsNumber(5), JsObject}}

\* a handler that takes every OK response for a login
login_succeeded_any_ok(resp) == resp.ok /\ resp.type = "object"

\* response.ok && data.status === 'ok'
login_succeeded(resp) == resp.ok /\ resp.type = "object" /\ resp.status = "ok"

\* The try/catch of handleSubmit after the answer: whether onLoginSuccess
\* is called and what setError receives ('' when it is not called).  A
\* rejected fetch, a body that is no JSON and a null body (reading
\* data.status or data.message throws) end in the catch block.
login_outcome(resp) ==
    IF resp.type \in {"network", "invalid", "null"}
    THEN [called |-> FALSE,
          error |-> JsString("Failed to connect to the server. Please try again later.")]
    ELSE IF login_succeeded(resp)
    THEN [called |-> TRUE, error |-> JsString("")]
    ELSE [called |-> FALSE,
          error |-> or_else(resp.message, JsString("Login failed. Please try again."))]

\* Whether the render of the form throws:
\* {error && <p className="error">{error}</p>}
form_render_throws(error) == truthy(error) /\ ~valid_child(error)

\* the requests of a form that is unmounted join the orphans
orphaned(orphans, reqs) ==
    [b \in BOOLEAN |-> orphans[b] +
        Cardinality({k \in 1..Len(reqs) : blank(reqs[k].username, reqs[k].password) = b})]

NoSubmit == [done |-> FALSE]

LoginFormInit ==
    /\ lf_mounted = FALSE
    /\ lf_username = <<>>
    /\ lf_password = <<>>
    /\ lf_error = JsString("")
    /\ lf_loading = FALSE
    /\ lf_inflight = <<>>
    /\ lf_orphans = [b \in BOOLEAN |-> 0]
    /\ lf_last = NoSubmit

\* The old App renders the LoginForm: no user is logged in and no
\* application error is shown.
LoginFormMount ==
    /\ ~lf_mounted
    /\ lf_mounted' = TRUE
    /\ UNCHANGED <<lf_username, lf_password, lf_error, lf_loading, lf_inflight,
                   lf_orphans, lf_last>>
    /\ UNCHANGED notLogin

\* onChange={(e) => setUsername(e.target.value)}
setUsername(v) ==
    /\ lf_mounted
    /\ v # lf_username
    /\ lf_username' = v
    /\ UNCHANGED <<lf_mounted, lf_password, lf_error, lf_loading, lf_inflight,
                   lf_orphans, lf_last>>
    /\ UNCHANGED notLogin

\* onChange={(e) => setPassword(e.target.value)}
setPassword(v) ==
    /\ lf_mounted
    /\ v # lf_password
    /\ lf_password' = v
    /\ UNCHANGED <<lf_mounted, lf_username, lf_error, lf_loading, lf_inflight,
                   lf_orphans, lf_last>>
    /\ UNCHANGED notLogin

\* the sequence without its i-th element
without(s, i) == SubSeq(s, 1, i - 1) \o SubSeq(s, i + 1, Len(s))

\* handleSubmit up to the await: the form is submitted through its button,
\* which is disabled while loading.
handleSubmit ==
    /\ lf_mounted
    /\ ~lf_loading
    /\ Len(lf_inflight) + lf_orphans[TRUE] + lf_orphans[FALSE] < MaxSubmits
    /\ IF validation_rejects(lf_username, lf_password)
       THEN /\ lf_error' = JsString("Username and password cannot be empty.")
            /\ lf_loading' = FALSE
            /\ UNCHANGED lf_inflight
       ELSE /\ lf_error' = JsString("")
            /\ lf_loading' = TRUE
            /\ lf_inflight' = Append(lf_inflight,
                   [username |-> lf_username, password |-> lf_password])
    /\ UNCHANGED <<lf_mounted, lf_username, lf_password, lf_orphans, lf_last>>
    /\ UNCHANGED notLogin

\* handleSubmit after the await: the answer to the i-th request arrives.
\* onLoginSuccess is App.handleLoginSuccess: it sets loggedInUser, so the
\* App renders the welcome text in place of the form and the state of the
\* form is dropped; the other requests of the form are still answered.
\* A message that is an object is stored in error as it is; the render
\* that follows throws, and React unmounts the root, the form with it.
LoginAnswer(i, resp) ==
    LET req == lf_inflight[i]
        out == login_outcome(resp)
        error == IF out.called THEN lf_error ELSE out.error
    IN
    /\ i \in 1..Len(lf_inflight)
    /\ lf_last' = [done |-> TRUE, blank |-> blank(req.username, req.password),
                   live |-> TRUE, resp |-> resp,
                   calls |-> IF out.called THEN 1 ELSE 0,
                   error |-> error, loading |-> FALSE]
    /\ IF out.called \/ form_render_throws(error)
       THEN /\ lf_mounted' = FALSE
            /\ lf_username' = <<>>
            /\ lf_password' = <<>>
            /\ lf_error' = JsString("")
            /\ lf_loading' = FALSE
            /\ lf_inflight' = <<>>
            /\ lf_orphans' = orphaned(lf_orphans, without(lf_inflight, i))
       ELSE /\ lf_error' = error
            /\ lf_loading' = FALSE
            /\ lf_inflight' = without(lf_inflight, i)
            /\ UNCHANGED <<lf_mounted, lf_username, lf_password, lf_orphans>>
    /\ UNCHANGED notLogin

\* The answer to a request arrives whose form is no longer mounted: React
\* ignores the state updates of its handler, but onLoginSuccess is called
\* as for any other answer, and the App then shows the welcome text.
OrphanAnswer(b, resp) ==
    LET out == login_outcome(resp)
        left == [lf_orphans EXCEPT ![b] = @ - 1]
    IN
    /\ lf_orphans[b] > 0
    /\ lf_last' = [done |-> TRUE, blank |-> b, live |-> FALSE, resp |-> resp,
                   calls |-> IF out.called THEN 1 ELSE 0,
                   error |-> lf_error, loading |-> lf_loading]
    /\ IF out.called
       THEN /\ lf_mounted' = FALSE
            /\ lf_username' = <<>>
            /\ lf_password' = <<>>
            /\ lf_error' = JsString("")
            /\ lf_loading' = FALSE
            /\ lf_inflight' = <<>>
            /\ lf_orphans' = orphaned(left, lf_inflight)
       ELSE /\ lf_orphans' = left
            /\ UNCHANGED <<lf_mounted, lf_username, lf_password, lf_error,
                           lf_loading, lf_inflight>>
    /\ UNCHANGED notLogin

\* triggerAppError of the old App: the error view replaces the form, whose
\* state is dropped; the requests it has sent are still answered.
LoginFormUnmount ==
    /\ lf_mounted
    /\ lf_mounted' = FALSE
    /\ lf_username' = <<>>
    /\ lf_password' = <<>>
    /\ lf_error' = JsString("")
    /\ lf_loading' = FALSE
    /\ lf_inflight' = <<>>
    /\ lf_orphans' = orphaned(lf_orphans, lf_inflight)
    /\ UNCHANGED lf_last
    /\ UNCHANGED notLogin

LoginFormNext ==
    \/ LoginFormMount
    \/ \E v \in FieldValues : setUsername(v)
    \/ \E v \in PasswordValues : setPassword(v)
    \/ handleSubmit
    \/ \E i \in 1..MaxSubmits, resp \in LoginResponses : LoginAnswer(i, resp)
    \/ \E b \in BOOLEAN, resp \in LoginResponses : OrphanAnswer(b, resp)
    \/ LoginFormUnmount

(***************************************************************************)
(* The WeatherDashboard component, old and new frontend                    *)
(***************************************************************************)
DashVersions == {"old", "new"}
DashCities == {"London", "Paris"}

\* What fetch('/api/weather?city=...') and response.json() can bring: no
\* response at all (fetch rejects, status 0), or a response with its status
\* and a body that is no JSON, the JSON null, or an object; of the object
\* it matters whether avgTemp and reqCount are defined, whether avgTemp is
\* a number, null or a string, whether reqCount is a number or an object,
\* and what error and city hold ('' stands for an error that is absent or
\* empty, and for a city that is absent or a string).
WeatherResponse(status, type, avgTemp, reqCount, error, city) ==
    [status |-> status, type |-> type, avgTemp |-> avgTemp, reqCount |-> reqCount,
     error |-> error, city |-> city]

WeatherResponses ==
    {WeatherResponse(0, "network", "undefined", "undefined", JsString(""), JsString(""))}
    \cup {WeatherResponse(status, type, "undefined", "undefined", JsString(""),
                          JsString("")) :
            status \in {200, 500}, type \in {"invalid", "null"}}
    \cup {WeatherResponse(status, "object", avgTemp, reqCount, error, city) :
            status \in {200, 500},
            avgTemp \in {"undefined", "number", "null", "string"},
            reqCount \in {"undefined", "number", "object"},
            error \in {JsString(""), JsString("City not found"), JsObject},
            city \in {JsString(""), JsObject}}

\* response.ok: the status is in the range 200-299
response_ok(resp) == resp.status >= 200 /\ resp.status <= 299

\* response.statusText
statusText(resp) ==
    JsString(IF resp.status = 200 THEN "OK" ELSE "Internal Server Error")

\* data && typeof data.avgTemp !== 'undefined' && typeof data.reqCount !== 'undefined'
has_weather(resp) ==
    resp.type = "object" /\ resp.avgTemp # "undefined" /\ resp.reqCount # "undefined"

\* err.message || "An unexpected error occurred while fetching weather."
Message(text) ==
    or_else(JsString(text),
            JsString("An unexpected error occurred while fetching weather."))

\* The try/catch of fetchWeather after the answer: the exit path, and what
\* setWeather and setError receive (null when they are not called).  A
\* rejected fetch, an OK body that is no JSON and a null body of an error
\* response (reading errorData.error throws) end in the catch block.  The
\* error of a response that is not OK goes through a template literal, the
\* error of an OK response is stored as it is.
fetchWeather_outcome(resp) ==
    IF resp.type = "network"
    THEN [path |-> "thrown", weather |-> null, error |-> Message("Failed to fetch")]
    ELSE IF ~response_ok(resp)
    THEN IF resp.type = "null"
         THEN [path |-> "thrown", weather |-> null,
               error |-> Message("Cannot read properties of null (reading 'error')")]
         ELSE [path |-> "non-OK", weather |-> null,
               error |-> JsString("Failed to fetch weather: " \o ToString(resp.status)
                                  \o " - "
                                  \o template(or_else(resp.error, statusText(resp))))]
    ELSE IF resp.type = "invalid"
    THEN [path |-> "thrown", weather |-> null, error |-> Message("Unexpected token")]
    ELSE IF has_weather(resp)
    THEN [path |-> "success",
          weather |-> [avgTemp |-> resp.avgTemp, reqCount |-> resp.reqCount,
                       city |-> resp.city],
          error |-> null]
    ELSE IF resp.type = "object" /\ truthy(resp.error)
    THEN [path |-> "malformed", weather |-> null,
          error |-> or_else(resp.error, JsString("Received malformed weather data."))]
    ELSE [path |-> "malformed", weather |-> null,
          error |-> JsString("Received unexpected data structure from weather API.")]

\* {error && ...}: error is neither null nor ''
shows_error(error) == error # null /\ truthy(error)

\* Whether the render of the given state throws.  Both versions render
\* error, weather.city || city and weather.reqCount as children, which an
\* object cannot be, and call weather.avgTemp.toFixed(2) unless avgTemp is
\* null or undefined; the new one calls search.temp.toFixed(1) for the
\* last three entries of searchHistory.  Only a number has toFixed.
render_throws(version, city, weather, error, history) ==
    \/ /\ shows_error(error)
       /\ ~valid_child(error)
    \/ /\ weather # null
       /\ ~shows_error(error)
       /\ \/ ~valid_child(or_else(weather.city, JsString(city)))
          \/ weather.avgTemp \notin {"null", "undefined", "number"}
          \/ weather.reqCount = "object"
    \/ /\ version = "new"
       /\ \E k \in DOMAIN slice(history, 0 - 3) :
             slice(history, 0 - 3)[k].temp # "number"

NoFetch == [path |-> "none"]

DashboardInit ==
    /\ wd_mounted = "no"
    /\ wd_city = "London"
    /\ wd_weather = null
    /\ wd_loading = FALSE
    /\ wd_error = null
    /\ searchHistory = <<>>
    /\ wd_inflight = <<>>
    /\ wd_orphans = 0
    /\ wd_last = NoFetch

\* The App renders the WeatherDashboard of its frontend, for the first
\* time or, after a crash, in a page that is loaded again.
DashboardMount(version) ==
    /\ wd_mounted \in {"no", "crashed"}
    /\ wd_mounted' = version
    /\ UNCHANGED <<wd_city, wd_weather, wd_loading, wd_error, searchHistory,
                   wd_inflight, wd_orphans, wd_last>>
    /\ UNCHANGED notDash

\* onChange of the city input: setCity (handleCityChange in the new version)
handleCityChange(newCity) ==
    /\ wd_mounted \in DashVersions
    /\ newCity # wd_city
    /\ wd_city' = newCity
    /\ UNCHANGED <<wd_mounted, wd_weather, wd_loading, wd_error, searchHistory,
                   wd_inflight, wd_orphans, wd_last>>
    /\ UNCHANGED notDash

\* a button that can always be clicked
button_never_disabled(loading) == FALSE

\* <button onClick={fetchWeather} disabled={loading}>
button_disabled(loading) == loading

\* a start of fetchWeather that leaves the last result in place
cleared_kept(prev) == prev

\* setError(null); setWeather(null) at the start of fetchWeather
cleared(prev) == null

\* fetchWeather up to the await: the button is clicked.
fetchWeather ==
    /\ wd_mounted \in DashVersions
    /\ ~button_disabled(wd_loading)
    /\ Len(wd_inflight) + wd_orphans < MaxPending
    /\ Len(searchHistory) < MaxHistory
    /\ wd_loading' = TRUE
    /\ wd_error' = cleared(wd_error)
    /\ wd_weather' = cleared(wd_weather)
    /\ wd_inflight' = Append(wd_inflight, wd_city)
    /\ UNCHANGED <<wd_mounted, wd_city, searchHistory, wd_orphans, wd_last>>
    /\ UNCHANGED notDash

\* fetchWeather after the await: the answer to the i-th request arrives.
\* Every path ends with setLoading(false); the new version also records a
\* success in searchHistory, with the city of the render that was clicked.
\* The updates are rendered together; a render that throws is caught by no
\* error boundary, so React unmounts the whole tree and the state of the
\* component is lost.  Nothing aborts a request: the others still on their
\* way go on without their component.
WeatherAnswer(i, resp) ==
    LET out == fetchWeather_outcome(resp)
        weather == IF out.weather # null THEN out.weather ELSE wd_weather
        error == IF out.error # null THEN out.error ELSE wd_error
        history ==
            IF wd_mounted = "new" /\ out.path = "success"
            THEN Append(searchHistory, [city |-> wd_inflight[i], temp |-> resp.avgTemp])
            ELSE searchHistory
    IN
    /\ i \in 1..Len(wd_inflight)
    /\ wd_last' = [path |-> out.path, resp |-> resp]
    /\ IF render_throws(wd_mounted, wd_city, weather, error, history)
       THEN /\ wd_mounted' = "crashed"
            /\ wd_city' = "London"
            /\ wd_weather' = null
            /\ wd_loading' = FALSE
            /\ wd_error' = null
            /\ searchHistory' = <<>>
            /\ wd_inflight' = <<>>
            /\ wd_orphans' = wd_orphans + Len(without(wd_inflight, i))
       ELSE /\ wd_inflight' = without(wd_inflight, i)
            /\ wd_weather' = weather
            /\ wd_error' = error
            /\ wd_loading' = FALSE
            /\ searchHistory' = history
            /\ UNCHANGED <<wd_mounted, wd_city, wd_orphans>>
    /\ UNCHANGED notDash

\* The App no longer renders the WeatherDashboard (logout in the new App,
\* the error view in the old one): its state is dropped.  fetchWeather
\* passes no AbortSignal and the component has no cleanup, so a request
\* still on its way stays in flight without its component.
DashboardUnmount ==
    /\ wd_mounted \in DashVersions
    /\ wd_mounted' = "no"
    /\ wd_city' = "London"
    /\ wd_weather' = null
    /\ wd_loading' = FALSE
    /\ wd_error' = null
    /\ searchHistory' = <<>>
    /\ wd_inflight' = <<>>
    /\ wd_orphans' = wd_orphans + Len(wd_inflight)
    /\ wd_last' = NoFetch
    /\ UNCHANGED notDash

\* The answer to a request of a dashboard that is gone arrives: the rest
\* of its fetchWeather runs, and React ignores the state updates of a
\* component that is no longer mounted.
OrphanWeatherAnswer ==
    /\ wd_orphans > 0
    /\ wd_orphans' = wd_orphans - 1
    /\ UNCHANGED <<wd_mounted, wd_city, wd_weather, wd_loading, wd_error,
                   searchHistory, wd_inflight, wd_last>>
    /\ UNCHANGED notDash

DashboardNext ==
    \/ \E version \in DashVersions : DashboardMount(version)
    \/ \E newCity \in DashCities : handleCityChange(newCity)
    \/ fetchWeather
    \/ \E i \in 1..MaxPending, resp \in WeatherResponses : WeatherAnswer(i, resp)
    \/ DashboardUnmount
    \/ OrphanWeatherAnswer

(***************************************************************************)
(* Specifications                                                          *)
(***************************************************************************)
Init == WeatherInit /\ AuthInit /\ PoolInit /\ AppInit /\ OldAppInit
        /\ UserListInit /\ OldListInit /\ LoginFormInit /\ DashboardInit

SpecWeather == Init /\ [][WeatherNext]_vars

SpecAuth == Init /\ [][AuthNext]_vars

SpecSessions == Init /\ [][SessionsNext]_vars

SpecPool == Init /\ [][PoolNext]_vars

SpecApp == Init /\ [][AppNext]_vars

SpecOldApp == Init /\ [][OldAppNext]_vars

SpecUserList == Init /\ [][UserListNext]_vars

SpecOldUserList == Init /\ [][OldListNext]_vars

SpecLoginForm == Init /\ [][LoginFormNext]_vars

SpecDashboard == Init /\ [][DashboardNext]_vars

(***************************************************************************)
(* Claims about the connection pool and the statistics                     *)
(***************************************************************************)
\* C4: every acquired connection is released on every exit path: once a
\* request (db-stats, login, users) has finished, with or without an error,
\* none of the connections it acquired is still checked out.
C4_ReleasedOnEveryPath == leaked = {}

C6_SnapshotAcyclic ==
    stats.built =>
        /\ ~has_cycle(stats.heap, stats.root)
        /\ jsonify(stats.heap, stats.root).status = 200

\* the degraded result of the statistics: in-memory figures present, the
\* database-backed field marked absent
PartialStatsResponse == Response(200, "PartialStats")

\* C13: when the database query inside the db-stats request fails, the
\* request still returns a result (PartialStats, carrying the cache size
\* and the session count with the total-user field absent); it never ends
\* as a hard failure because of the store.
C13_PartialStatsOnQueryFailure ==
    [][\A r \in Handlers :
          (rkind[r] = "db-stats" /\
             (QueryError(r) \/ \E c \in AllConnections : ConnectionFail(r, c))) =>
              rresult'[r] = PartialStatsResponse]_vars

credentials_valid(u, p) ==
    \E r \in users : r.username = u /\ r.password = hash(p)

\* C2: login returns a Session if and only if a user with exactly that
\* username exists and the password matches that user's stored hash; the
\* username admin'--, the password "admin" or a user id below 10 never
\* suffice.
C2_LoginIffCredentials ==
    aresult.status \in {"ok", "InvalidCredentials"} =>
        (aresult.status = "ok" <=>
            credentials_valid(aresult.username, aresult.password))

\* C3: validate returns a Session only when the token is exactly the key of
\* a stored session that has not expired, whatever the user id of the
\* request.
C3_ExactTokenOnly ==
    vresult.status = "granted" =>
        /\ vresult.session # NoSession
        /\ vresult.session.token = vresult.token

\* C11: validate on a token whose session is past expiresAt returns
\* Unauthenticated even before any sweep; sweepExpired removes exactly the
\* expired sessions; a validate on a stored, non-expired token returns that
\* token's session, also after a sweep.
C11_ExpiredRejectedSweepExact ==
    [][/\ \A t \in Tokens, uid \in {1, 12} :
             (Validate(t, uid) /\ t \in expired_tokens(user_sessions, now)) =>
                 vresult'.status = "Unauthenticated"
       /\ SweepExpired =>
             /\ DOMAIN user_sessions' =
                    DOMAIN user_sessions \ expired_tokens(user_sessions, now)
             /\ \A t \in DOMAIN user_sessions' : user_sessions'[t] = user_sessions[t]
       /\ \A t \in Tokens, uid \in {1, 12} :
             (Validate(t, uid) /\ t \in DOMAIN user_sessions
                /\ t \notin expired_tokens(user_sessions, now)) =>
                 vresult'.session = user_sessions[t]]_vars

(***************************************************************************)
(* Claims about the weather lookup                                         *)
(***************************************************************************)
WeatherQuiet == \A w \in Workers : wpc[w] = "idle"

\* C1: once all concurrent weather lookups for a city have completed, the
\* city's requestCount equals the number of lookups made for it: no
\* increment is lost and none is counted twice.
C1_NoLostUpdate ==
    WeatherQuiet =>
        \A c \in DOMAIN weather_cache : weather_cache[c].requestCount = calls[c]

\* sum(v_i * (i+1)) / sum(i+1) as the fraction <<numerator, denominator>>
linear_average(temps) ==
    LET w == linear_weights(temps)
    IN  <<SumSeq([i \in 1..Len(temps) |-> temps[i] * w[i]]), SumSeq(w)>>

SameFraction(a, b) == a[1] * b[2] = b[1] * a[2]

\* C7: for every retained reading sequence of 1..N readings, the average
\* returned by the weather lookup is the linearly weighted one, weights
\* 1, 2, 3, ..., k from oldest to newest.
C7_LinearWeightedAverage ==
    \A w \in Workers :
        (wresult[w].status = "ok" /\ Len(wresult[w].readings) <= N) =>
            SameFraction(wresult[w].avgTemp, linear_average(wresult[w].readings))

\* C8: in every state of the weather cache at most M cities are tracked and
\* at most N readings are retained for each of them.
C8_CacheBounded ==
    /\ Cardinality(DOMAIN weather_cache) <= M
    /\ \A c \in DOMAIN weather_cache : Len(weather_cache[c].readings) <= N

(***************************************************************************)
(* Claims about the App component of the new frontend                      *)
(***************************************************************************)
\* C14: the effect that depends on userPreferences sets userPreferences to
\* a freshly created object each time it runs: after mount the component is
\* never in a state in which no state update (and so no re-render) is
\* pending.
C14_RenderNeverSettles ==
    app_mounted = "yes" => ~Object_is(userPreferences, rendered_prefs)

\* The component has re-rendered for a new preferences object and the
\* effect has scheduled the next re-render.
C14_Witness ==
    /\ app_mounted = "yes"
    /\ rendered_prefs.ref > initialPreferences.ref
    /\ userPreferences.ref > rendered_prefs.ref

\* C16: the notification-trimming interval created on mount has no
\* cleanup: no step ever clears an interval, and the unmount of the
\* component leaves it live, so it goes on firing afterwards.
C16_IntervalNeverCleared ==
    [][/\ intervals \subseteq intervals'
       /\ AppUnmount => (intervals' # {} /\ \E i \in IntervalIds : ENABLED TrimTick(i))
      ]_vars

\* The interval has fired after the component was unmounted.
C16_Witness ==
    /\ app_mounted = "gone"
    /\ last_tick.on = "unmounted"
    /\ intervals # {}

\* C17: the delayed notification of fetchDelayedData uses the user captured
\* when the callback was first created: whoever logged in, every delayed
\* notification names 'unknown'.
C17_DelayedNamesUnknown ==
    /\ \A k \in 1..Len(timeouts) : timeouts[k].captured = null
    /\ \A i \in 1..Len(notifications) :
          notifications[i].message[1] = "Delayed operation completed for" =>
              notifications[i].message[2] = "unknown"

\* A user is logged in and the delayed notification of a login is shown.
C17_Witness ==
    /\ user # null
    /\ \E i \in 1..Len(notifications) :
          notifications[i].message = <<"Delayed operation completed for", "unknown">>

\* C19: every tick of the interval replaces notifications by its last 5
\* entries in their original order: right after a tick the list has at
\* most 5 entries and they are the most recently appended ones; between
\* ticks the list may be longer than 5.
C19_TickKeepsLastFive ==
    [][\A i \in IntervalIds :
          (TrimTick(i) /\ app_mounted = "yes") =>
              LET n == Len(notifications)
                  k == Len(notifications')
              IN  /\ k = Min(n, KeepLast)
                  /\ \A j \in 1..k :
                        /\ notifications'[j] = notifications[n - k + j]
                        /\ notifications'[j].id = appended - k + j]_vars

\* A tick has found more than 5 notifications and has cut the list to 5.
C19_Witness ==
    /\ last_tick.on = "mounted"
    /\ last_tick.dropped > 0
    /\ Len(notifications) = KeepLast

\* C24: after handleLogout the list of notifications stays empty until the
\* next successful login or failure of the DB statistics: while no user is
\* logged in, no step other than a login or the answer to a request for
\* the DB statistics makes the empty list non-empty, so no notification
\* that an earlier login has scheduled is appended after the logout that
\* cleared the list.
C24_EmptyAfterLogout ==
    [][(/\ app_mounted = "yes"
        /\ user = null
        /\ notifications = <<>>
        /\ ~(\E u \in AppUsers : handleLoginSuccess(u))
        /\ ~(\E answer \in DbStatsAnswers : fetchDbStats_answered(answer))) =>
            notifications' = <<>>]_vars

(***************************************************************************)
(* Claims about the App component of the old frontend                      *)
(***************************************************************************)
\* C15: the effect with the dependency [leakCounter] starts an interval on
\* mount and again after every change of leakCounter, and no interval is
\* ever cleared: the number of live intervals never decreases, every tick
\* leaves a re-render pending and every such re-render adds an interval.
C15_IntervalsOnlyGrow ==
    [][/\ old_intervals \subseteq old_intervals'
       /\ (old_mounted = "no" /\ old_mounted' = "yes") =>
              Cardinality(old_intervals') >= Cardinality(old_intervals) + 1
       /\ \A i \in old_intervals :
              (LeakTick(i) /\ old_mounted = "yes") => leakCounter' # rendered_leak'
       /\ OldAppRender =>
              Cardinality(old_intervals') >= Cardinality(old_intervals) + 1]_vars

\* Two re-renders for a changed leakCounter have each added an interval.
C15_Witness ==
    /\ old_mounted = "yes"
    /\ rendered_leak >= 2
    /\ Cardinality(old_intervals) >= 3

(***************************************************************************)
(* Claims about the UserList component of the new frontend                 *)
(***************************************************************************)
\* C18: after users were selected and the page or the search
\* was changed, some rendered row appears selected although its user's id
\* is not selected, or a selected user appears unselected.
C18_SelectionCorrupted ==
    (ul_trace = "moved" /\ ul_dom # <<>>) =>
        \E i \in 1..Len(ul_dom) :
            ul_dom[i].checked # (ul_dom[i].userId \in selectedUsers)

\* C22: once every request to /api/users has been answered, the users
\* shown are the answer to the most recent (page, searchTerm) pair: with no
\* request left in flight and the request started last answered ok, users
\* holds the rows of the current page and term, so the answer to an older
\* request that arrived later has not replaced them.
C22_LatestRequestWins ==
    (ul_mounted /\ ul_inflight = {} /\ ul_latest_ok) =>
        ul_users = api_users(page, searchTerm)

\* C23: loading is true in every state in which a request to /api/users
\* is in flight and false only when none is: the answer to one request
\* does not end loading while another request is still pending.
C23_LoadingWhileInFlight ==
    ul_mounted => (ul_loading <=> ul_inflight # {})

\* C28: page is an integer >= 1 after any sequence of Previous, Next and
\* search actions; every change of the search term resets page to 1; and
\* page grows only from a state in which the rows loaded last fill a page
\* (20 users, here PageLimit) and no load is shown as in progress.
C28_PageBounds ==
    [][/\ page' \in Nat \ {0}
       /\ searchTerm' # searchTerm => page' = 1
       /\ page' > page => (Len(ul_users) >= PageLimit /\ ~ul_loading)]_vars

\* The search term was changed on page 2, while the rows of page 2 were
\* still being fetched: the page is 1 again.
C28_Witness ==
    /\ ul_mounted
    /\ searchTerm # <<>>
    /\ page = 1
    /\ \E req \in ul_inflight : req.page = 2 /\ req.term = <<>>

(***************************************************************************)
(* Claims about the UserList component of the old frontend                 *)
(***************************************************************************)
\* C20 (as stated): when /api/users answers with JSON that is not an
\* array, the value is stored in users and the failing users.map is caught
\* locally: the component then renders the 'Error rendering user list'
\* message; it never throws out of render.
C20_NonArrayShowsRenderError ==
    [][\A term \in SearchTerms, data \in JsonValues :
          (OldListAnswer(term, data) /\ ~isArray(data)) =>
              /\ ol_mounted'
              /\ ol_users' = data
              /\ old_view' = "Error rendering user list"]_vars

\* C20 (amended): a JSON answer that is not an array is stored in users,
\* and whenever the render gets to users.map (not loading, no error stored)
\* the failure is caught locally and the 'Error rendering user list'
\* message is rendered; no render throws.  With the error of another
\* request stored, the error paragraph is rendered instead.
C20_NonArrayCaughtInRender ==
    [][/\ \A term \in SearchTerms, data \in JsonValues :
             (OldListAnswer(term, data) /\ ~isArray(data)) =>
                 /\ ol_mounted'
                 /\ ol_users' = data
                 /\ old_view' = IF ol_error = null THEN "Error rendering user list"
                                ELSE "error"
       /\ ~isArray(ol_users') => old_view' # "throws out of render"
       /\ (~ol_loading' /\ ol_error' = null /\ map_throws(ol_users')) =>
             old_view' = "Error rendering user list"]_vars

\* An object that is no array is stored in users and the component shows
\* the message of its catch block.
C20_Witness ==
    /\ ol_mounted
    /\ ol_users = Json("object", <<>>)
    /\ old_view = "Error rendering user list"

(***************************************************************************)
(* Claims about the LoginForm component of the old frontend                *)
(***************************************************************************)
\* C21: a submit with an empty or whitespace-only username or password is
\* not rejected on the client: handleSubmit sets no error and sends exactly
\* one POST /api/login with the values as entered, and how the submit ends
\* (the call of onLoginSuccess, the error) is what the answer alone makes
\* of it.
C21_BlankSubmitIsSent ==
    [][/\ (handleSubmit /\ blank(lf_username, lf_password)) =>
             /\ Len(lf_inflight') = Len(lf_inflight) + 1
             /\ lf_inflight'[Len(lf_inflight')] =
                    [username |-> lf_username, password |-> lf_password]
             /\ lf_error' = JsString("")
             /\ lf_loading'
       /\ \A i \in 1..Len(lf_inflight) :
             (/\ lf_last'.done
              /\ LoginAnswer(i, lf_last'.resp)
              /\ blank(lf_inflight[i].username, lf_inflight[i].password)) =>
                 /\ lf_last'.calls = IF login_outcome(lf_last'.resp).called THEN 1 ELSE 0
                 /\ lf_last'.error = login_outcome(lf_last'.resp).error]_vars

\* A submit with a blank field has been answered with status 'ok' and has
\* logged the user in.
C21_Witness ==
    /\ lf_last.done
    /\ lf_last.blank
    /\ lf_last.calls = 1

\* C27, as stated: every completed submit of the form ends with loading
\* false and with exactly one of two outcomes: onLoginSuccess is called
\* once (only when the response is OK and its status field is 'ok') and
\* error stays empty, or onLoginSuccess is not called and error is a
\* non-empty message.  A request whose form is no longer mounted has no
\* state to end in; its answer calls onLoginSuccess under the same
\* condition.
C27_SubmitOutcomes ==
    [][LET resp == lf_last'.resp IN
       /\ \A i \in 1..Len(lf_inflight) :
             (lf_last'.done /\ LoginAnswer(i, resp)) =>
                 /\ lf_last'.loading = FALSE
                 /\ lf_loading' = FALSE
                 /\ \/ /\ resp.ok /\ resp.status = "ok"
                       /\ lf_last'.calls = 1
                       /\ lf_last'.error = JsString("")
                    \/ /\ ~(resp.ok /\ resp.status = "ok")
                       /\ lf_last'.calls = 0
                       /\ truthy(lf_last'.error)
                       /\ lf_error' = lf_last'.error
       /\ \A b \in BOOLEAN :
             (lf_last'.done /\ OrphanAnswer(b, resp)) =>
                 lf_last'.calls = IF resp.ok /\ resp.status = "ok" THEN 1 ELSE 0]_vars

\* C27, amended: every completed submit ends with loading false and with
\* one of two outcomes: onLoginSuccess is called once (only when the
\* response is OK and its status field is 'ok') and error stays empty, or
\* onLoginSuccess is not called and setError receives a non-empty value.
\* The form shows that value, unless it is the message of the server and
\* an object: then the render throws, the tree is unmounted and no error
\* is shown.
C27_SubmitOutcomesOrCrash ==
    [][LET resp == lf_last'.resp IN
       /\ \A i \in 1..Len(lf_inflight) :
             (lf_last'.done /\ LoginAnswer(i, resp)) =>
                 /\ lf_last'.loading = FALSE
                 /\ lf_loading' = FALSE
                 /\ \/ /\ resp.ok /\ resp.status = "ok"
                       /\ lf_last'.calls = 1
                       /\ lf_last'.error = JsString("")
                    \/ /\ ~(resp.ok /\ resp.status = "ok")
                       /\ lf_last'.calls = 0
                       /\ truthy(lf_last'.error)
                       /\ IF resp.type = "object" /\ resp.message = JsObject
                          THEN ~lf_mounted' /\ lf_error' = JsString("")
                          ELSE lf_mounted' /\ lf_error' = lf_last'.error
       /\ \A b \in BOOLEAN :
             (lf_last'.done /\ OrphanAnswer(b, resp)) =>
                 lf_last'.calls = IF resp.ok /\ resp.status = "ok" THEN 1 ELSE 0]_vars

\* A submit has ended with a message of the server that is an object: the
\* render has thrown and the form is gone.
C27_Witness ==
    /\ ~lf_mounted
    /\ lf_last.done
    /\ lf_last.live
    /\ lf_last.calls = 0
    /\ lf_last.error = JsObject
    /\ lf_error = JsString("")

(***************************************************************************)
(* Claims about the WeatherDashboard component                             *)
(***************************************************************************)
\* C25, as stated: in both versions at most one weather request is in
\* flight at any time: fetchWeather starts only while loading is false,
\* loading is true from its start until it finishes, and every exit path
\* (success, non-OK response, malformed data, thrown error) returns loading
\* to false.
C25_OneRequestInFlight ==
    [][/\ Len(wd_inflight') + wd_orphans' <= 1
       /\ wd_loading' <=> wd_inflight' # <<>>
       /\ Len(wd_inflight') > Len(wd_inflight) => ~wd_loading
       /\ \A i \in 1..Len(wd_inflight) :
             (wd_last'.path # "none" /\ WeatherAnswer(i, wd_last'.resp)) =>
                 /\ wd_last'.path \in {"success", "non-OK", "malformed", "thrown"}
                 /\ ~wd_loading']_vars

\* C25, amended: in both versions a mounted dashboard has at most one
\* weather request of its own in flight: fetchWeather starts only while
\* loading is false, loading is true from its start until it finishes, and
\* every exit path (success, non-OK response, malformed data, thrown error)
\* returns loading to false.  A request that is unanswered when its
\* dashboard is unmounted is not aborted: it stays in flight until its
\* answer arrives, beside the request of the dashboard mounted next.
C25_OneRequestPerDashboard ==
    [][/\ Len(wd_inflight') <= 1
       /\ wd_loading' <=> wd_inflight' # <<>>
       /\ Len(wd_inflight') > Len(wd_inflight) => ~wd_loading
       /\ \A i \in 1..Len(wd_inflight) :
             (wd_last'.path # "none" /\ WeatherAnswer(i, wd_last'.resp)) =>
                 /\ wd_last'.path \in {"success", "non-OK", "malformed", "thrown"}
                 /\ ~wd_loading'
       /\ Len(wd_inflight') + wd_orphans' >= Len(wd_inflight) + wd_orphans - 1
       /\ (wd_mounted \in DashVersions /\ wd_mounted' = "no") =>
              Len(wd_inflight') + wd_orphans' = Len(wd_inflight) + wd_orphans]_vars

\* A dashboard was unmounted while its request was on its way, and the
\* dashboard mounted after it has a request of its own in flight.
C25_Witness ==
    /\ wd_mounted \in DashVersions
    /\ wd_orphans = 1
    /\ wd_loading
    /\ Len(wd_inflight) = 1

render_breaks(version, resp) ==
    /\ resp.status \in 200..299
    /\ resp.type = "object"
    /\ IF resp.avgTemp # "undefined" /\ resp.reqCount # "undefined"
       THEN \/ resp.avgTemp = "string"
            \/ version = "new" /\ resp.avgTemp = "null"
            \/ resp.reqCount = "object"
            \/ resp.city = JsObject
       ELSE resp.error = JsObject

====
